---------------------------- MODULE Spec2Model ----------------------------
(***************************************************************************)
(* Model of the remittance transaction-flow synthesis engine               *)
(* (src/llm/remittance.py, src/llm/contract_utils.py).                     *)
(*                                                                         *)
(* Python values are modelled as follows.                                  *)
(*   str    a sequence of one-character strings                            *)
(*   int    [neg : BOOLEAN, mag : limbs], mag a little-endian sequence of  *)
(*          base-4096 digits without leading zeros (arbitrary precision,   *)
(*          as in Python)                                                  *)
(*   float  [neg : BOOLEAN, m : limbs, e : Int], the IEEE-754 double       *)
(*          m * 2^e with m < 2^53 and m odd or zero; every operation       *)
(*          rounds to nearest, ties to even, as the hardware does.  The    *)
(*          amounts drawn below stay inside the normal range of a double,  *)
(*          so infinities, NaN and subnormals are not represented.         *)
(*   dict   a function whose DOMAIN is the set of keys                     *)
(***************************************************************************)
EXTENDS Integers, Sequences, FiniteSets, TLC

(***************************************************************************)
(* Arbitrary-precision naturals (Python int magnitudes).                   *)
(***************************************************************************)
\* TRUE.  TLC evaluates an operand when it is first used: an accumulator
\* that a recursion only passes on is evaluated at the bottom of the
\* recursion, nested inside every level.  Forced(v) evaluates it now.
\* For the same reason carries are computed by look-ahead, not by rippling.
Forced(v) == v = v

LimbBits == 12

Base == 4096

Pow2(n) == <<1, 2, 4, 8, 16, 32, 64, 128, 256, 512, 1024, 2048, 4096>>[n + 1]

Pow10(n) == <<1, 10, 100, 1000, 10000, 100000, 1000000, 10000000,
              100000000, 1000000000>>[n + 1]

Zeros(n) == [j \in 1..n |-> 0]

\* b without its leading (high) zero limbs
Normalize(b) ==
    IF \A j \in 1..Len(b) : b[j] = 0 THEN <<>>
    ELSE SubSeq(b, 1, CHOOSE j \in 1..Len(b) :
                          b[j] # 0 /\ \A k \in (j + 1)..Len(b) : b[k] = 0)

\* a natural below 2^31
NatToLimbs(n) == Normalize(<<n % Base, (n \div Base) % Base, n \div (Base * Base)>>)

Limb(b, i) == IF i >= 1 /\ i <= Len(b) THEN b[i] ELSE 0

Max(x, y) == IF x >= y THEN x ELSE y

\* a + b; the carry into limb i is generated at some lower limb and
\* propagated by every limb in between
AddBig(a, b) ==
    LET t(j)     == Limb(a, j) + Limb(b, j)
        carry(i) == \E j \in 1..(i - 1) :
                        t(j) >= Base /\ \A k \in (j + 1)..(i - 1) : t(k) = Base - 1
    IN  Normalize([i \in 1..(Max(Len(a), Len(b)) + 1) |->
                      (t(i) + (IF carry(i) THEN 1 ELSE 0)) % Base])

\* a - b for a >= b, with the borrow found the same way
SubBig(a, b) ==
    LET borrow(i) == \E j \in 1..(i - 1) :
                         /\ Limb(a, j) < Limb(b, j)
                         /\ \A k \in (j + 1)..(i - 1) : Limb(a, k) = Limb(b, k)
    IN  Normalize([i \in 1..Len(a) |->
                      (Base + Limb(a, i) - Limb(b, i)
                            - (IF borrow(i) THEN 1 ELSE 0)) % Base])

\* a >= b: no limb of a is smaller with all higher limbs equal
GeqBig(a, b) ==
    IF Len(a) # Len(b) THEN Len(a) > Len(b)
    ELSE ~\E i \in 1..Len(a) : a[i] < b[i] /\ \A k \in (i + 1)..Len(a) : a[k] = b[k]

\* the sum of the three-limb values c[j] * Base^(j - 1), each c[j] < 2^31
SumColumns(c) ==
    AddBig(AddBig([j \in 1..Len(c) |-> c[j] % Base],
                  <<0>> \o [j \in 1..Len(c) |-> (c[j] \div Base) % Base]),
           <<0, 0>> \o [j \in 1..Len(c) |-> c[j] \div (Base * Base)])

\* b * k for 0 <= k < 2^19
MulSmall(b, k) == SumColumns([j \in 1..Len(b) |-> b[j] * k])

\* the sum of a[i] * b[j + 1 - i] over the first n limbs of a
RECURSIVE Column(_, _, _, _)
Column(a, b, j, n) ==
    IF n = 0 THEN 0 ELSE Limb(a, n) * Limb(b, j + 1 - n) + Column(a, b, j, n - 1)

\* a * b, column by column; a is the shorter operand, below 128 limbs
MulShort(a, b) ==
    IF a = <<>> \/ b = <<>> THEN <<>>
    ELSE SumColumns([j \in 1..(Len(a) + Len(b) - 1) |-> Column(a, b, j, Len(a))])

MulBig(a, b) == IF Len(a) <= Len(b) THEN MulShort(a, b) ELSE MulShort(b, a)

\* 10^n
RECURSIVE Pow10Big(_)
Pow10Big(n) ==
    IF n <= 9 THEN NatToLimbs(Pow10(n))
    ELSE MulBig(Pow10Big(n \div 2), Pow10Big(n - (n \div 2)))

\* b * 10^n
MulPow10(b, n) == MulBig(b, Pow10Big(n))

\* long division of b by a small k, from the high limb down; i is the limb
\* being consumed, r the running remainder, q the quotient limbs so far
RECURSIVE DivSmallFrom(_, _, _, _, _)
DivSmallFrom(b, k, i, r, q) ==
    IF i = 0 \/ ~Forced(<<r, q>>) THEN [q |-> Normalize(q), r |-> r]
    ELSE LET t == Base * r + b[i]
         IN  DivSmallFrom(b, k, i - 1, t % k, <<t \div k>> \o q)

\* b \div k and b % k for 0 < k < 2^19
DivSmall(b, k) == DivSmallFrom(b, k, Len(b), 0, <<>>)

\* floor(b / 10^n), five decimal digits at a time, with sticky = some
\* remainder was dropped
RECURSIVE DivPow10(_, _, _)
DivPow10(b, n, sticky) ==
    IF n = 0 \/ ~Forced(<<b, sticky>>) THEN [q |-> b, sticky |-> sticky]
    ELSE LET c == IF n > 5 THEN 5 ELSE n
             d == DivSmall(b, Pow10(c))
         IN  DivPow10(d.q, n - c, sticky \/ d.r # 0)

\* b * 2^s
ShiftLeft(b, s) ==
    LET p == Pow2(s % LimbBits)
    IN  IF b = <<>> THEN <<>>
        ELSE Zeros(s \div LimbBits)
             \o Normalize([i \in 1..(Len(b) + 1) |->
                              ((Limb(b, i) * p) % Base) + ((Limb(b, i - 1) * p) \div Base)])

\* floor(b / 2^s), with lost = some one bit was shifted out
ShiftRight(b, s) ==
    LET w == s \div LimbBits
        p == Pow2(s % LimbBits)
    IN  [q    |-> Normalize([i \in 1..(Len(b) - w) |->
                      (Limb(b, i + w) \div p) + ((Limb(b, i + w + 1) % p) * (Base \div p))]),
         lost |-> \/ Limb(b, w + 1) % p # 0
                  \/ \E i \in 1..Len(b) : i <= w /\ b[i] # 0]

BitLenSmall(n) == CHOOSE k \in 0..LimbBits : n < Pow2(k) /\ (k = 0 \/ n >= Pow2(k - 1))

\* the number of bits of b
BitLen(b) ==
    IF b = <<>> THEN 0 ELSE LimbBits * (Len(b) - 1) + BitLenSmall(b[Len(b)])

\* the quotient digit floor(r / b), for r < Base * b: its high and its low
\* half are each found among 64 candidates
QuotDigit(r, b) ==
    LET Fits(d) == GeqBig(r, MulSmall(b, d))
        hi == CHOOSE h \in 0..63 : Fits(64 * h) /\ ~Fits(64 * (h + 1))
        lo == CHOOSE l \in 0..63 : Fits(64 * hi + l) /\ ~Fits(64 * hi + l + 1)
    IN  64 * hi + lo

\* long division of a by b (b > 0), from the high limb down
RECURSIVE DivBigFrom(_, _, _, _, _)
DivBigFrom(a, b, i, r, q) ==
    IF i = 0 \/ ~Forced(<<r, q>>) THEN [q |-> Normalize(q), r |-> r]
    ELSE LET t == Normalize(<<a[i]>> \o r)
             d == QuotDigit(t, b)
         IN  DivBigFrom(a, b, i - 1, SubBig(t, MulSmall(b, d)), <<d>> \o q)

\* the high Len(b) - 1 limbs of a are below b and yield no quotient digit:
\* they are the first remainder
DivBig(a, b) ==
    IF Len(a) < Len(b) THEN [q |-> <<>>, r |-> a]
    ELSE DivBigFrom(a, b, Len(a) - Len(b) + 1,
                    Normalize(SubSeq(a, Len(a) - Len(b) + 2, Len(a))), <<>>)

(***************************************************************************)
(* IEEE-754 doubles.                                                       *)
(***************************************************************************)
MantBits == 53

IsOdd(b) == b # <<>> /\ b[1] % 2 = 1

\* the number of trailing zero bits of b # 0
TrailingZeros(b) ==
    LET w == (CHOOSE j \in 1..Len(b) : b[j] # 0 /\ \A k \in 1..(j - 1) : b[k] = 0) - 1
        k == CHOOSE k \in 0..(LimbBits - 1) :
                 b[w + 1] % Pow2(k + 1) # 0 /\ b[w + 1] % Pow2(k) = 0
    IN  LimbBits * w + k

\* the canonical form of m * 2^e: m odd, or zero
Canon(neg, m, e) ==
    IF m = <<>> THEN [neg |-> neg, m |-> <<>>, e |-> 0]
    ELSE LET z == TrailingZeros(m)
         IN  [neg |-> neg, m |-> ShiftRight(m, z).q, e |-> e + z]

\* the nearest double to n * 2^e (plus a nonzero fraction below n's unit
\* when sticky), ties to even
Round53(neg, n, e, sticky) ==
    IF BitLen(n) <= MantBits THEN Canon(neg, n, e)
    ELSE LET s   == BitLen(n) - MantBits
             h   == ShiftRight(n, s - 1)
             rb  == IsOdd(h.q)
             m0  == ShiftRight(h.q, 1).q
             low == sticky \/ h.lost
             up  == rb /\ (low \/ IsOdd(m0))
             m1  == IF up THEN AddBig(m0, <<1>>) ELSE m0
         IN  Canon(neg, m1, e + s)

\* the double nearest to the decimal mant * 10^exp: float() of a JSON
\* number or of its text
FloatOfBigDecimal(neg, mant, exp) ==
    IF exp >= 0 THEN Round53(neg, MulPow10(mant, exp), 0, FALSE)
    ELSE LET k == 0 - exp
             s == MantBits + 2 + 4 * k
             d == DivPow10(ShiftLeft(mant, s), k, FALSE)
         IN  Round53(neg, d.q, 0 - s, d.sticky)

\* the same for a mantissa below 2^31
FloatOfDecimal(neg, mant, exp) == FloatOfBigDecimal(neg, NatToLimbs(mant), exp)

\* float * float
FloatMul(a, b) ==
    Round53(a.neg # b.neg, MulBig(a.m, b.m), a.e + b.e, FALSE)

\* float / float, b # 0
FloatDiv(a, b) ==
    LET s == MantBits + 3 + BitLen(b.m) - BitLen(a.m)
        d == DivBig(ShiftLeft(a.m, s), b.m)
    IN  Round53(a.neg # b.neg, d.q, a.e - b.e - s, d.r # <<>>)

\* float + float: the operands are aligned exactly, then rounded once
FloatAdd(a, b) ==
    LET e  == IF a.e < b.e THEN a.e ELSE b.e
        x  == ShiftLeft(a.m, a.e - e)
        y  == ShiftLeft(b.m, b.e - e)
    IN  IF a.neg = b.neg THEN Round53(a.neg, AddBig(x, y), e, FALSE)
        ELSE IF GeqBig(x, y) THEN Round53(a.neg /\ x # y, SubBig(x, y), e, FALSE)
        ELSE Round53(b.neg, SubBig(y, x), e, FALSE)

\* int(float): truncation toward zero
IntOfFloat(f) ==
    LET mag == IF f.e >= 0 THEN ShiftLeft(f.m, f.e) ELSE ShiftRight(f.m, 0 - f.e).q
    IN  [neg |-> f.neg /\ mag # <<>>, mag |-> mag]

(***************************************************************************)
(* Text.                                                                   *)
(***************************************************************************)
HexDigits == <<"0", "1", "2", "3", "4", "5", "6", "7",
               "8", "9", "a", "b", "c", "d", "e", "f">>

HexOfLimb(d) == <<HexDigits[(d \div 256) + 1], HexDigits[((d \div 16) % 16) + 1],
                  HexDigits[(d % 16) + 1]>>

\* the limbs as hexadecimal digits, high digit first
HexOfLimbs(b) ==
    [j \in 1..(3 * Len(b)) |-> HexOfLimb(b[Len(b) - ((j - 1) \div 3)])[((j - 1) % 3) + 1]]

\* the number of leading "0" characters of s that can be dropped while
\* keeping one character
LeadingZeros(s) ==
    IF \E j \in 1..Len(s) : s[j] # "0"
    THEN (CHOOSE j \in 1..Len(s) : s[j] # "0" /\ \A k \in 1..(j - 1) : s[k] = "0") - 1
    ELSE Len(s) - 1

\* format(n, "x") of a magnitude: its hexadecimal digits, high digit first
HexOfMag(b) ==
    IF b = <<>> THEN <<"0">>
    ELSE LET h == HexOfLimbs(b) IN SubSeq(h, LeadingZeros(h) + 1, Len(h))

Repeat(c, n) == [j \in 1..n |-> c]

\* str.zfill(width)
zfill(s, width) == IF Len(s) >= width THEN s ELSE Repeat("0", width - Len(s)) \o s

\* format(v, "064x"): sign-aware zero padding to a minimum width of 64
Format064x(v) ==
    IF v.neg THEN <<"-">> \o zfill(HexOfMag(v.mag), 63)
    ELSE zfill(HexOfMag(v.mag), 64)

UpperChars == <<"A", "B", "C", "D", "E", "F", "G", "H", "I", "J", "K", "L", "M",
              "N", "O", "P", "Q", "R", "S", "T", "U", "V", "W", "X", "Y", "Z">>

LowerChars == <<"a", "b", "c", "d", "e", "f", "g", "h", "i", "j", "k", "l", "m",
              "n", "o", "p", "q", "r", "s", "t", "u", "v", "w", "x", "y", "z">>

LowerChar(c) ==
    IF \E j \in 1..Len(UpperChars) : UpperChars[j] = c
    THEN LowerChars[CHOOSE j \in 1..Len(UpperChars) : UpperChars[j] = c]
    ELSE c

\* str.lower()
lower(s) == [j \in 1..Len(s) |-> LowerChar(s[j])]

\* str.startswith(prefix)
startswith(s, prefix) ==
    Len(s) >= Len(prefix) /\ SubSeq(s, 1, Len(prefix)) = prefix

(***************************************************************************)
(* Python values and builtins.                                             *)
(***************************************************************************)
\* a call either returns a value or raises an exception
Return(v) == [raised |-> FALSE, value |-> v]

Raise(e) == [raised |-> TRUE, exc |-> e]

None == [t |-> "NoneType"]

\* dict.get(key, default)
Get(d, key, default) == IF key \in DOMAIN d THEN d[key] ELSE default

\* {**a, **b}: the entries of b replace those of a
Merge(a, b) ==
    [k \in (DOMAIN a) \cup (DOMAIN b) |-> IF k \in DOMAIN b THEN b[k] ELSE a[k]]

\* the values json.loads builds: a number without fraction or exponent is
\* an int, any other number the nearest double, a string a str
JInt(neg, mant, exp) ==
    [t |-> "int", v |-> [neg |-> neg /\ mant # 0, mag |-> MulPow10(NatToLimbs(mant), exp)]]

JFloat(neg, mant, exp) == [t |-> "float", v |-> FloatOfDecimal(neg, mant, exp)]

JStr(s) == [t |-> "str", v |-> s]

\* float(int)
FloatOfInt(v) == Round53(v.neg, v.mag, 0, FALSE)

\* a float written in the source as the decimal mant * 10^exp
FloatLit(mant, exp) == FloatOfDecimal(FALSE, mant, exp)

Digits == <<"0", "1", "2", "3", "4", "5", "6", "7", "8", "9">>

IsDigit(c) == \E j \in 1..Len(Digits) : Digits[j] = c

DigitVal(c) == (CHOOSE j \in 1..Len(Digits) : Digits[j] = c) - 1

\* the natural a run of at most nine digits denotes
DigitsToNat(ds) ==
    LET term(j) == DigitVal(ds[j]) * Pow10(Len(ds) - j)
        part[j \in 0..Len(ds)] == IF j = 0 THEN 0 ELSE part[j - 1] + term(j)
    IN  part[Len(ds)]

\* the index of the first character of s that lies in cs, 0 if there is none
FindAny(s, cs) ==
    IF \E j \in 1..Len(s) : s[j] \in cs
    THEN CHOOSE j \in 1..Len(s) : s[j] \in cs /\ \A k \in 1..(j - 1) : s[k] \notin cs
    ELSE 0

\* float(str) for texts made of a sign, digits, a point and an exponent
\* (the texts drawn contain no blanks, digit separators, "inf" or "nan"):
\* ValueError unless the text is [sign] digits [. digits] [e [sign] digits]
\* with at least one digit in the mantissa
FloatOfStr(s) ==
    LET signed == s # <<>> /\ s[1] \in {"+", "-"}
        body   == IF signed THEN Tail(s) ELSE s
        ePos   == FindAny(body, {"e", "E"})
        mant   == IF ePos = 0 THEN body ELSE SubSeq(body, 1, ePos - 1)
        expo   == IF ePos = 0 THEN <<>> ELSE SubSeq(body, ePos + 1, Len(body))
        eSign  == expo # <<>> /\ expo[1] \in {"+", "-"}
        eDigs  == IF eSign THEN Tail(expo) ELSE expo
        point  == FindAny(mant, {"."})
        mDigs  == SelectSeq(mant, IsDigit)
        frac   == IF point = 0 THEN 0 ELSE Len(mant) - point
        mantOk == /\ mDigs # <<>>
                  /\ \A j \in 1..Len(mant) : IsDigit(mant[j]) \/ j = point
        expOk  == \/ ePos = 0
                  \/ eDigs # <<>> /\ \A j \in 1..Len(eDigs) : IsDigit(eDigs[j])
        eVal   == IF ePos = 0 THEN 0
                  ELSE IF expo[1] = "-" THEN 0 - DigitsToNat(eDigs)
                  ELSE DigitsToNat(eDigs)
    IN  IF mantOk /\ expOk
        THEN Return(FloatOfDecimal(signed /\ s[1] = "-", DigitsToNat(mDigs), eVal - frac))
        ELSE Raise("ValueError")

\* float(x)
float(x) ==
    CASE x.t = "float" -> Return(x.v)
      [] x.t = "int"   -> Return(FloatOfInt(x.v))
      [] x.t = "str"   -> FloatOfStr(x.v)
      [] OTHER         -> Raise("TypeError")

\* x * f for a float f: a number is multiplied as a float, any other
\* operand is a TypeError
TimesFloat(x, f) ==
    CASE x.t = "float" -> Return(FloatMul(x.v, f))
      [] x.t = "int"   -> Return(FloatMul(FloatOfInt(x.v), f))
      [] OTHER         -> Raise("TypeError")

\* bool(x)
Truthy(x) ==
    CASE x.t = "str"   -> x.v # <<>>
      [] x.t = "int"   -> x.v.mag # <<>>
      [] x.t = "float" -> x.v.m # <<>>
      [] OTHER         -> FALSE

\* the decimal digits of b, n of them, high digit first
DecimalDigits(b, n) ==
    [j \in 1..n |-> Digits[DivSmall(DivPow10(b, n - j, FALSE).q, 10).r + 1]]

\* the number of decimal digits of b (1 for zero)
NumDigits(b) ==
    CHOOSE n \in 1..(4 * Len(b) + 1) :
        ~GeqBig(b, Pow10Big(n)) /\ (n = 1 \/ GeqBig(b, Pow10Big(n - 1)))

\* str(int) of a magnitude
DecimalOfMag(b) == DecimalDigits(b, NumDigits(b))

\* f * 10^s for a double f > 0, as the fraction ScaledNum / ScaledDen
ScaledNum(f, s) ==
    MulPow10(IF f.e >= 0 THEN ShiftLeft(f.m, f.e) ELSE f.m, IF s >= 0 THEN s ELSE 0)

ScaledDen(f, s) ==
    MulPow10(IF f.e < 0 THEN ShiftLeft(<<1>>, 0 - f.e) ELSE <<1>>, IF s < 0 THEN 0 - s ELSE 0)

\* f >= 10^j
GeqPow10(f, j) == GeqBig(ScaledNum(f, 0 - j), ScaledDen(f, 0 - j))

\* the decimal exponent x of f > 0: 10^x <= f < 10^(x + 1)
Exp10Near(f, est) ==
    CHOOSE x \in {est - 1, est, est + 1} : GeqPow10(f, x) /\ ~GeqPow10(f, x + 1)

Exp10(f) == Exp10Near(f, ((BitLen(f.m) + f.e - 1) * 30103) \div 100000)

\* of the two integers next to the quotient dv of f * 10^s (den its divisor),
\* the nearer one (ties to even) if it reads back as f, else the other one
\* if that does, else <<>>
NearestReadingBack(f, s, dv, den) ==
    LET lo    == dv.q
        hi    == AddBig(dv.q, <<1>>)
        twice == AddBig(dv.r, dv.r)
        up    == ~GeqBig(den, twice) \/ (twice = den /\ IsOdd(lo))
        okLo  == lo # <<>> /\ FloatOfBigDecimal(f.neg, lo, 0 - s) = f
        okHi  == FloatOfBigDecimal(f.neg, hi, 0 - s) = f
    IN  IF up /\ okHi THEN hi
        ELSE IF okLo THEN lo
        ELSE IF okHi THEN hi
        ELSE <<>>

\* the integer of k digits nearest to f > 0 that reads back as f, <<>> if
\* k digits are not enough; x is f's decimal exponent
Candidate(f, k, x) ==
    NearestReadingBack(f, k - 1 - x,
                       DivBig(ScaledNum(f, k - 1 - x), ScaledDen(f, k - 1 - x)),
                       ScaledDen(f, k - 1 - x))

\* the fewest digits that read back as f: 17 always do
ShortestLen(f, x) == CHOOSE k \in 1..17 : Candidate(f, k, x) # <<>>

\* s without its trailing "0" characters, of which one is kept if s is all "0"
StripZeros(s) ==
    IF \A j \in 1..Len(s) : s[j] = "0" THEN <<"0">>
    ELSE SubSeq(s, 1, CHOOSE j \in 1..Len(s) :
                          s[j] # "0" /\ \A k \in (j + 1)..Len(s) : s[k] = "0")

\* the digits ds of a double with decimal exponent x, laid out as repr
\* does: scientific notation below 1e-4 and from 1e16 on
ReprLayout(ds, x) ==
    IF x < -4 \/ x >= 16
    THEN <<ds[1]>> \o (IF Len(ds) > 1 THEN <<".">> \o Tail(ds) ELSE <<>>)
         \o <<"e", IF x < 0 THEN "-" ELSE "+">>
         \o zfill(DecimalOfMag(NatToLimbs(IF x < 0 THEN 0 - x ELSE x)), 2)
    ELSE IF x < 0 THEN <<"0", ".">> \o Repeat("0", 0 - x - 1) \o ds
    ELSE IF Len(ds) <= x + 1 THEN ds \o Repeat("0", x + 1 - Len(ds)) \o <<".", "0">>
    ELSE SubSeq(ds, 1, x + 1) \o <<".">> \o SubSeq(ds, x + 2, Len(ds))

\* the digits of the candidate c of k digits; a candidate of k + 1 digits is
\* 10^k, one decimal exponent higher
ReprOfCandidate(c, k, x) ==
    ReprLayout(StripZeros(DecimalOfMag(c)), x + NumDigits(c) - k)

ReprOfLen(f, k, x) == ReprOfCandidate(Candidate(f, k, x), k, x)

ReprOfExp(f, x) == ReprOfLen(f, ShortestLen(f, x), x)

\* repr(float): the shortest decimal that reads back as the double
float_repr(f) ==
    (IF f.neg THEN <<"-">> ELSE <<>>)
    \o (IF f.m = <<>> THEN <<"0", ".", "0">> ELSE ReprOfExp(f, Exp10(f)))

\* str(x), which is also what an f-string writes for {x}
str(x) ==
    CASE x.t = "str"   -> x.v
      [] x.t = "int"   -> (IF x.v.neg THEN <<"-">> ELSE <<>>) \o DecimalOfMag(x.v.mag)
      [] x.t = "float" -> float_repr(x.v)
      [] OTHER         -> <<"N", "o", "n", "e">>

(***************************************************************************)
(* src/llm/contract_utils.py                                               *)
(***************************************************************************)
SEPOLIA_CONTRACTS ==
    [USDC |-> <<"0", "x", "1", "c", "7", "D", "4", "B", "1", "9", "6", "C", "b", "0", "C", "7",
      "B", "0", "1", "d", "7", "4", "3", "F", "b", "c", "6", "1", "1", "6", "a", "9",
      "0", "2", "3", "7", "9", "C", "7", "2", "3", "8">>,
     EURC |-> <<"0", "x", "0", "8", "2", "1", "0", "F", "9", "1", "7", "0", "F", "8", "9", "A",
      "b", "7", "6", "5", "8", "F", "0", "B", "5", "E", "3", "f", "F", "3", "9", "b",
      "0", "E", "0", "3", "C", "5", "9", "4", "D", "4">>,
     tUSD |-> <<"0", "x", "F", "0", "3", "8", "E", "2", "7", "5", "0", "7", "4", "0", "5", "9",
      "5", "4", "a", "1", "B", "5", "9", "D", "3", "7", "b", "9", "3", "6", "f", "0",
      "2", "2", "6", "C", "6", "0", "3", "4", "A", "C">>,
     tEUR |-> <<"0", "x", "6", "F", "2", "f", "8", "8", "3", "4", "0", "B", "0", "2", "7", "C",
      "c", "6", "b", "8", "a", "5", "5", "1", "9", "1", "2", "A", "3", "0", "e", "9",
      "5", "7", "a", "C", "5", "9", "c", "b", "8", "b">>,
     TestRemittanceBridge |-> <<"0", "x", "5", "2", "2", "B", "d", "F", "8", "a", "f", "3", "4", "1", "5", "a",
      "a", "2", "8", "1", "e", "2", "5", "4", "8", "1", "A", "1", "D", "4", "0", "2",
      "8", "6", "9", "E", "1", "6", "1", "e", "3", "6">>]

TOKEN_DECIMALS == [USDC |-> 6, EURC |-> 6, tUSD |-> 6, tEUR |-> 6]

\* 50 * 10**9
GAS_PRICE == [neg |-> FALSE, mag |-> MulPow10(NatToLimbs(50), 9)]

CHAIN_ID == 11155111

\* the outcomes of secrets.token_hex(32) that are told apart
NumTokens == 2

token_hex(h) == [j \in 1..64 |-> HexDigits[((h * j) % 16) + 1]]

generate_tx_hash(h) == <<"0", "x">> \o token_hex(h)

\* the prefix is added whatever the address starts with
format_prefixing(address) == lower(<<"0", "x">> \o address)

format_address(address) ==
    lower(IF ~startswith(address, <<"0", "x">>) THEN <<"0", "x">> \o address ELSE address)

\* the descriptor is the builder's transaction with the new keys added
format_keeping_input(tx_data, user_address) ==
    Merge(tx_data,
          [from     |-> format_address(user_address),
           gasLimit |-> Get(tx_data, "gas", 200000),
           chainId  |-> CHAIN_ID])

format_transaction_for_signing(tx_data, user_address) ==
    [to       |-> Get(tx_data, "to", None),
     from     |-> format_address(user_address),
     data     |-> Get(tx_data, "data", None),
     value    |-> Get(tx_data, "value", 0),
     gasLimit |-> Get(tx_data, "gas", 200000),
     gasPrice |-> Get(tx_data, "gasPrice", GAS_PRICE),
     chainId  |-> CHAIN_ID]

\* int(float(amount) * 10 ** decimals), or the exception float() raises
\* int(f * 10 ** decimals) for the outcome f of float(amount)
ToBaseUnits(f, decimals) ==
    IF f.raised THEN f
    ELSE Return(IntOfFloat(FloatMul(f.value, FloatOfInt(JInt(FALSE, 1, decimals).v))))

BaseUnits(amount, decimals) == ToBaseUnits(float(amount), decimals)

\* address.startswith on a value that is not a str
AddressError(user_address) == user_address.t # "str"

\* the builder names no gasPrice and the descriptor's default applies
mint_default_price(user_address, tusd_amount) ==
    IF tusd_amount.raised THEN tusd_amount
    ELSE IF AddressError(user_address) THEN Raise("AttributeError")
    ELSE Return(format_transaction_for_signing(
                    [to |-> SEPOLIA_CONTRACTS["tUSD"],
                     data |-> <<"0", "x", "a", "0", "7", "1", "2", "d", "6", "8">>
                              \o Format064x(tusd_amount.value),
                     gas |-> 200000,
                     chain |-> "sepolia",
                     value |-> 0],
                    user_address.v))

\* the amount is written without its zero padding
mint_unpadded(user_address, tusd_amount) ==
    IF tusd_amount.raised THEN tusd_amount
    ELSE IF AddressError(user_address) THEN Raise("AttributeError")
    ELSE Return(format_transaction_for_signing(
                    [to |-> SEPOLIA_CONTRACTS["tUSD"],
                     data |-> <<"0", "x", "a", "0", "7", "1", "2", "d", "6", "8">>
                              \o HexOfMag(tusd_amount.value.mag),
                     gas |-> 200000,
                     gasPrice |-> [neg |-> FALSE, mag |-> MulPow10(NatToLimbs(55), 9)],
                     chain |-> "sepolia",
                     value |-> 0],
                    user_address.v))

\* the function from its second statement on, given the outcome of its first
tusd_faucet_tx(user_address, tusd_amount) ==
    LET function_selector == <<"a", "0", "7", "1", "2", "d", "6", "8">>
        amount_encoded == Format064x(tusd_amount.value)
        data == <<"0", "x">> \o function_selector \o amount_encoded
        tx == [to |-> SEPOLIA_CONTRACTS["tUSD"],
               from |-> format_address(user_address.v),
               data |-> data,
               gas |-> 200000,
               gasPrice |-> [neg |-> FALSE, mag |-> MulPow10(NatToLimbs(55), 9)],
               chain |-> "sepolia",
               value |-> 0]
    IN  IF tusd_amount.raised THEN tusd_amount
        ELSE IF AddressError(user_address) THEN Raise("AttributeError")
        ELSE Return(format_transaction_for_signing(tx, user_address.v))

generate_tusd_faucet_tx(user_address, amount) ==
    tusd_faucet_tx(user_address, BaseUnits(amount, TOKEN_DECIMALS["tUSD"]))

\* the builder names no gas and the descriptor's default applies
approval_default_gas(user_address, spender_address, tusd_amount) ==
    IF tusd_amount.raised THEN tusd_amount
    ELSE IF AddressError(user_address) THEN Raise("AttributeError")
    ELSE Return(format_transaction_for_signing(
                    [to |-> SEPOLIA_CONTRACTS["tUSD"],
                     data |-> <<"0", "x", "0", "9", "5", "e", "a", "7", "b", "3">>
                              \o zfill(SubSeq(format_address(spender_address), 3,
                                              Len(format_address(spender_address))), 64)
                              \o Format064x(tusd_amount.value),
                     gasPrice |-> GAS_PRICE,
                     chain |-> "sepolia"],
                    user_address.v))

\* the function from its second statement on, given the outcome of its first
tusd_approval_tx(user_address, spender_address, tusd_amount) ==
    LET data == <<"0", "x", "0", "9", "5", "e", "a", "7", "b", "3">>
                \o zfill(SubSeq(format_address(spender_address), 3,
                                Len(format_address(spender_address))), 64)
                \o Format064x(tusd_amount.value)
        tx == [to |-> SEPOLIA_CONTRACTS["tUSD"],
               from |-> format_address(user_address.v),
               data |-> data,
               gas |-> 100000,
               gasPrice |-> GAS_PRICE,
               chain |-> "sepolia"]
    IN  IF tusd_amount.raised THEN tusd_amount
        ELSE IF AddressError(user_address) THEN Raise("AttributeError")
        ELSE Return(format_transaction_for_signing(tx, user_address.v))

\* the approval is for the largest amount, whatever is minted
approve_unlimited(user_address, spender_address, amount) ==
    Return(format_transaction_for_signing(
               [to |-> SEPOLIA_CONTRACTS["tUSD"],
                data |-> <<"0", "x", "0", "9", "5", "e", "a", "7", "b", "3">>
                         \o zfill(SubSeq(format_address(spender_address), 3,
                                         Len(format_address(spender_address))), 64)
                         \o Repeat("f", 64),
                gas |-> 100000,
                gasPrice |-> GAS_PRICE,
                chain |-> "sepolia"],
               user_address.v))

generate_tusd_approval_tx(user_address, spender_address, amount) ==
    tusd_approval_tx(user_address, spender_address, BaseUnits(amount, TOKEN_DECIMALS["tUSD"]))

\* the function from its second statement on, given the outcome of its first
teur_approval_tx(user_address, spender_address, teur_amount) ==
    LET data == <<"0", "x", "0", "9", "5", "e", "a", "7", "b", "3">>
                \o zfill(SubSeq(format_address(spender_address), 3,
                                Len(format_address(spender_address))), 64)
                \o Format064x(teur_amount.value)
        tx == [to |-> SEPOLIA_CONTRACTS["tEUR"],
               from |-> format_address(user_address.v),
               data |-> data,
               gas |-> 100000,
               gasPrice |-> GAS_PRICE,
               chain |-> "sepolia"]
    IN  IF teur_amount.raised THEN teur_amount
        ELSE IF AddressError(user_address) THEN Raise("AttributeError")
        ELSE Return(format_transaction_for_signing(tx, user_address.v))

generate_teur_approval_tx(user_address, spender_address, amount) ==
    teur_approval_tx(user_address, spender_address, BaseUnits(amount, TOKEN_DECIMALS["tEUR"]))

\* the literal tail of the bridge calldata: string offset, string length
\* and string data
RemixTail ==
    <<"0", "0", "0", "0", "0", "0", "0", "0", "0", "0", "0", "0", "0", "0", "0", "0",
      "0", "0", "0", "0", "0", "0", "0", "0", "0", "0", "0", "0", "0", "0", "0", "0",
      "0", "0", "0", "0", "0", "0", "0", "0", "0", "0", "0", "0", "0", "0", "0", "0",
      "0", "0", "0", "0", "0", "0", "0", "0", "0", "0", "0", "0", "0", "0", "4", "0">>
    \o <<"0", "0", "0", "0", "0", "0", "0", "0", "0", "0", "0", "0", "0", "0", "0", "0",
      "0", "0", "0", "0", "0", "0", "0", "0", "0", "0", "0", "0", "0", "0", "0", "0",
      "0", "0", "0", "0", "0", "0", "0", "0", "0", "0", "0", "0", "0", "0", "0", "0",
      "0", "0", "0", "0", "0", "0", "0", "0", "0", "0", "0", "0", "0", "0", "1", "d">>
    \o <<"5", "3", "6", "1", "6", "e", "7", "4", "6", "9", "6", "1", "6", "7", "6", "f",
      "2", "0", "7", "4", "6", "5", "7", "3", "7", "4", "2", "0", "3", "1", "7", "3",
      "7", "4", "2", "0", "7", "4", "7", "2", "6", "1", "7", "3", "6", "e", "6", "1",
      "6", "3", "7", "4", "6", "9", "6", "f", "6", "e", "0", "0", "0", "0", "0", "0">>

\* the recipient argument is not used
\* the function from its second statement on, given the outcome of its first
test_remittance_tx(user_address, tusd_amount) ==
    LET function_selector == <<"f", "f", "6", "d", "c", "6", "c", "f">>
        amount_encoded == Format064x(tusd_amount.value)
        data == <<"0", "x">> \o function_selector \o amount_encoded \o RemixTail
        tx == [to |-> SEPOLIA_CONTRACTS["TestRemittanceBridge"],
               from |-> format_address(user_address.v),
               data |-> data,
               gas |-> 300000,
               gasPrice |-> GAS_PRICE,
               chain |-> "sepolia"]
    IN  IF tusd_amount.raised THEN tusd_amount
        ELSE IF AddressError(user_address) THEN Raise("AttributeError")
        ELSE Return(format_transaction_for_signing(tx, user_address.v))

generate_test_remittance_tx(user_address, amount, recipient) ==
    test_remittance_tx(user_address, BaseUnits(amount, TOKEN_DECIMALS["tUSD"]))

\* the network fee is a share of the amount
cost_fee_by_amount(usd, h) ==
    IF usd.raised THEN usd
    ELSE Return(
        [usd_amount  |-> usd.value,
         usdc_amount |-> FloatDiv(usd.value, FloatLit(1005, -3)),
         eurc_amount |-> FloatMul(FloatDiv(usd.value, FloatLit(1005, -3)), FloatLit(92, -2)),
         eur_amount  |-> FloatDiv(FloatMul(FloatDiv(usd.value, FloatLit(1005, -3)),
                                           FloatLit(92, -2)),
                                  FloatLit(101, -2)),
         exchange_rates |-> [usd_to_usdc  |-> FloatLit(1005, -3),
                             usdc_to_eurc |-> FloatLit(92, -2),
                             eurc_to_eur  |-> FloatLit(101, -2)],
         fees |-> [network_fee_usd |-> FloatMul(usd.value, FloatLit(45, -2)),
                   service_fee_usd |-> FloatMul(usd.value, FloatLit(5, -3)),
                   total_cost_usd  |-> FloatAdd(FloatMul(usd.value, FloatLit(45, -2)),
                                                FloatMul(usd.value, FloatLit(5, -3)))],
         transaction_hash   |-> generate_tx_hash(h),
         requires_signature |-> FALSE,
         chain              |-> "sepolia"])

\* the last hop starts from the dollars, not from the previous hop
cost_unchained(usd, h) ==
    IF usd.raised THEN usd
    ELSE Return(
        [usd_amount  |-> usd.value,
         usdc_amount |-> FloatDiv(usd.value, FloatLit(1005, -3)),
         eurc_amount |-> FloatMul(FloatDiv(usd.value, FloatLit(1005, -3)), FloatLit(92, -2)),
         eur_amount  |-> FloatDiv(FloatMul(usd.value, FloatLit(92, -2)), FloatLit(101, -2)),
         exchange_rates |-> [usd_to_usdc  |-> FloatLit(1005, -3),
                             usdc_to_eurc |-> FloatLit(92, -2),
                             eurc_to_eur  |-> FloatLit(101, -2)],
         fees |-> [network_fee_usd |-> FloatLit(45, 0),
                   service_fee_usd |-> FloatMul(usd.value, FloatLit(5, -3)),
                   total_cost_usd  |-> FloatAdd(FloatLit(45, 0),
                                                FloatMul(usd.value, FloatLit(5, -3)))],
         transaction_hash   |-> generate_tx_hash(h),
         requires_signature |-> FALSE,
         chain              |-> "sepolia"])

\* the function given usd, the outcome of float(usd_amount), and h, the
\* outcome of secrets.token_hex
simulated_cost(usd, h) ==
    LET usd_to_usdc_rate  == FloatLit(1005, -3)
        usdc_to_eurc_rate == FloatLit(92, -2)
        eurc_to_eur_rate  == FloatLit(101, -2)
        estimated_gas     == JInt(FALSE, 300000, 0)
        gas_price_gwei    == FloatDiv(FloatOfInt(GAS_PRICE), FloatOfInt(JInt(FALSE, 1, 9).v))
        eth_price_usd     == JInt(FALSE, 3000, 0)
        network_fee_usd   ==
            FloatDiv(FloatMul(FloatMul(FloatOfInt(estimated_gas.v), gas_price_gwei),
                              FloatOfInt(eth_price_usd.v)),
                     FloatOfInt(JInt(FALSE, 1, 9).v))
        service_fee_usd   == FloatMul(usd.value, FloatLit(5, -3))
        total_cost_usd    == FloatAdd(network_fee_usd, service_fee_usd)
    IN  IF usd.raised THEN usd
        ELSE Return(
            [usd_amount  |-> usd.value,
             usdc_amount |-> FloatDiv(usd.value, usd_to_usdc_rate),
             eurc_amount |-> FloatMul(FloatDiv(usd.value, usd_to_usdc_rate),
                                      usdc_to_eurc_rate),
             eur_amount  |-> FloatDiv(FloatMul(FloatDiv(usd.value, usd_to_usdc_rate),
                                               usdc_to_eurc_rate),
                                      eurc_to_eur_rate),
             exchange_rates |-> [usd_to_usdc  |-> usd_to_usdc_rate,
                                 usdc_to_eurc |-> usdc_to_eurc_rate,
                                 eurc_to_eur  |-> eurc_to_eur_rate],
             fees |-> [network_fee_usd |-> network_fee_usd,
                       service_fee_usd |-> service_fee_usd,
                       total_cost_usd  |-> total_cost_usd],
             transaction_hash   |-> generate_tx_hash(h),
             requires_signature |-> FALSE,
             chain              |-> "sepolia"])

\* the trace identifier is also written into the chain field
simulate_stamped(user_address, usd_amount, h) ==
    IF float(usd_amount).raised THEN float(usd_amount)
    ELSE Return(Merge(simulated_cost(float(usd_amount), h).value,
                      [chain |-> generate_tx_hash(h)]))

\* the user_address is not used
simulate_test_remittance_cost(user_address, usd_amount, h) ==
    simulated_cost(float(usd_amount), h)

(***************************************************************************)
(* src/llm/remittance.py                                                   *)
(***************************************************************************)
TEST_REMITTANCE_BRIDGE_ADDRESS == SEPOLIA_CONTRACTS["TestRemittanceBridge"]

\* the placeholder "0x0000000000000000000000000000000000000000"
PlaceholderAddress == <<"0", "x">> \o Repeat("0", 40)

\* a local variable that is not bound yet
Unset == [t |-> "unset"]

\* What json.loads makes of the oracle's reply: an object (a dict from key
\* to value), another JSON value, or no JSON at all.  The oracle is free to
\* answer anything; these are the replies told apart.
OracleReplies ==
    << [kind |-> "object",
        value |-> [source_currency |-> JStr(<<"U", "S", "D">>), target_currency |-> JStr(<<"E", "U", "R">>),
                   amount |-> JInt(FALSE, 100, 0), recipient_name |-> JStr(<<"J", "o", "h", "n">>),
                   recipient_address |-> JStr(<<"d", "e", "f", "a", "u", "l", "t">>)]],
       [kind |-> "object",
        value |-> [source_currency |-> JStr(<<"U", "S", "D">>), target_currency |-> JStr(<<"E", "U", "R">>),
                   amount |-> JInt(FALSE, 50, 0),
                   recipient_address |-> JStr(<<"0", "x", "1", "2", "3", "4", "a", "b", "c", "d">>)]],
       [kind |-> "object",
        value |-> [amount |-> JFloat(FALSE, 125, -1), recipient_name |-> JStr(<<"A", "n", "a">>),
                   recipient_address |-> JStr(<<"0", "x", "A", "b", "C", "d", "1", "2", "E", "f">>)]],
       [kind |-> "object",
        value |-> [amount |-> JInt(TRUE, 5, 0), recipient_name |-> JStr(<<"J", "o", "h", "n">>)]],
       [kind |-> "object",
        value |-> [amount |-> JFloat(FALSE, 12, 70), recipient_address |-> JStr(<<>>)]],
       [kind |-> "object",
        value |-> [amount |-> JStr(<<"a", "b", "c">>), recipient_name |-> JStr(<<"J", "o", "h", "n">>)]],
       [kind |-> "object",
        value |-> [amount |-> JStr(<<"5", "0">>), recipient_name |-> JStr(<<"J", "o", "h", "n">>)]],
       [kind |-> "object",
        value |-> [recipient_name |-> JStr(<<"J", "o", "h", "n">>)]],
       [kind |-> "object",
        value |-> [amount |-> None, recipient_name |-> JStr(<<"J", "o", "h", "n">>)]],
       [kind |-> "object",
        value |-> [amount |-> JInt(FALSE, 10, 0),
                   recipient_address |-> JInt(FALSE, 5, 0)]],
       [kind |-> "object",
        value |-> [source_currency |-> JStr(<<"G", "B", "P">>), amount |-> JFloat(FALSE, 113, -2),
                   recipient_address |-> JStr(<<"A", "b", "C", "d", "1", "2">>)]],
       [kind |-> "object",
        value |-> [amount |-> JInt(FALSE, 10, 0), chain |-> JStr(<<"m", "a", "i", "n", "n", "e", "t">>),
                   nonce |-> JInt(FALSE, 7, 0), recipient_name |-> JStr(<<>>)]],
       [kind |-> "object",
        value |-> [amount |-> JStr(<<"-", "3", ".", "5">>), recipient_address |-> JStr(<<"d", "e", "f", "a", "u", "l", "t">>)]],
       [kind |-> "object",
        value |-> [amount |-> JFloat(FALSE, 29, -2), target_currency |-> JStr(<<"E", "U", "R">>)]],
       [kind |-> "array"],
       [kind |-> "invalid"],
       [kind |-> "object",
        value |-> [amount |-> JFloat(FALSE, 41, -1), recipient_name |-> JStr(<<"A", "n", "a">>),
                   recipient_address |-> JStr(<<"0", "X", "a", "b", "1", "2">>)]],
       [kind |-> "object",
        value |-> [source_currency |-> JStr(<<"G", "B", "P">>), amount |-> JInt(FALSE, 10, 0),
                   recipient_name |-> JStr(<<"A", "n", "a">>),
                   recipient_address |-> JStr(<<"d", "e", "f", "a", "u", "l", "t">>)]] >>

\* process_remittance_intent: where it is and its local variables
VARIABLES pc, response_text, json_str, parsed_data, amount, recipient_address,
          recipient_name, cost_simulation, transaction_flow, status_summary, result, exc

\* get_answer (src/main.py) and process_transaction (src/llm/handler.py):
\* which of the two runs and where it is, the reply of the classifier, the
\* local variables, the functions called so far and the outcome
VARIABLES api_pc, entry, response, classification, query_type, calls, answer

\* PromptTestingFramework (src/qa/experiment_framework.py): the fields
\* metrics and results of the object, where run_test_suite is, its test
\* cases and loop index, the attempt of run_test_case with the requests it
\* has sent and the waits it has made, and what run_test_case returned
VARIABLES qa_pc, metrics, results, test_cases, case_no, attempt, sent, slept,
          actual_intent, response_time

answer_vars == <<api_pc, entry, response, classification, query_type, calls, answer>>

suite_vars == <<qa_pc, metrics, results, test_cases, case_no, attempt, sent, slept,
                actual_intent, response_time>>

remittance_vars == <<pc, response_text, json_str, parsed_data, amount, recipient_address,
                     recipient_name, cost_simulation, transaction_flow, status_summary,
                     result, exc>>

vars == <<remittance_vars, answer_vars, suite_vars>>

\* a local variable of get_answer or process_transaction that is not bound
\* yet: an integer, a text
NoInt == -1

NoText == "unbound"

\* no request is being served
AnswerIdle ==
    /\ api_pc = "idle"
    /\ entry = "none"
    /\ response = <<>>
    /\ classification = NoInt
    /\ query_type = NoText
    /\ calls = <<>>
    /\ answer = [kind |-> "none"]

\* reset_metrics: the dict bound to self.metrics; a defaultdict is the
\* function of the keys touched so far
FreshMetrics ==
    [total |-> 0,
     correct |-> 0,
     failed_requests |-> 0,
     by_intent_type |-> <<>>,
     parameter_accuracy |-> <<>>,
     error_types |-> <<>>,
     response_times |-> <<>>]

\* the framework as __init__ leaves it; the locals of run_test_suite and
\* run_test_case hold nothing
SuiteIdle ==
    /\ qa_pc = "idle"
    /\ metrics = FreshMetrics
    /\ results = <<>>
    /\ test_cases = <<>>
    /\ case_no = 0
    /\ attempt = 0
    /\ sent = <<>>
    /\ slept = <<>>
    /\ actual_intent = Unset
    /\ response_time = 0

Init ==
    /\ pc = "idle"
    /\ AnswerIdle
    /\ SuiteIdle
    /\ response_text = Unset
    /\ json_str = Unset
    /\ parsed_data = Unset
    /\ amount = Unset
    /\ recipient_address = Unset
    /\ recipient_name = Unset
    /\ cost_simulation = Unset
    /\ transaction_flow = <<>>
    /\ status_summary = Unset
    /\ result = Unset
    /\ exc = Unset

\* the caller gets a partial result in place of the exception
ReturnPartial(e, lineno) ==
    /\ pc' = "returned"
    /\ exc' = Unset
    /\ result' = [error |-> e, transaction_flow |-> transaction_flow]
    /\ UNCHANGED <<answer_vars, suite_vars, response_text, json_str, parsed_data, amount, recipient_address, recipient_name,
                   cost_simulation, transaction_flow, status_summary>>

\* An exception of type e leaves process_remittance_intent from line lineno;
\* nothing catches it once the reply is parsed: the frame and its locals are
\* gone and the caller gets the exception instead of a value.
Propagate(e, lineno) ==
    /\ pc' = "raised"
    /\ exc' = [type |-> e, lineno |-> lineno]
    /\ result' = Unset
    /\ UNCHANGED <<answer_vars, suite_vars>>
    /\ response_text' = Unset
    /\ json_str' = Unset
    /\ parsed_data' = Unset
    /\ amount' = Unset
    /\ recipient_address' = Unset
    /\ recipient_name' = Unset
    /\ cost_simulation' = Unset
    /\ transaction_flow' = <<>>
    /\ status_summary' = Unset

\* x or y
Or(x, y) == IF Truthy(x) THEN x ELSE y

\* the "step1" entry of the transaction_flow literal, given its tx_data
Step1(tx_data) ==
    [name |-> "Get tUSDC Tokens",
     description |-> "Get test USD tokens directly to your wallet",
     tx_data |-> tx_data,
     requires_signature |-> TRUE,
     status |-> "waiting_for_signature",
     explain |-> "This step will mint test USD tokens directly to your wallet. These tokens represent USD for testing purposes."]

Step2(tx_data) ==
    [name |-> "tUSDC Approval",
     description |-> "Approve the TestRemittanceBridge contract to spend your tUSDC",
     tx_data |-> tx_data,
     requires_signature |-> TRUE,
     status |-> "waiting_for_signature",
     explain |-> "This step approves the TestRemittanceBridge contract to spend your tUSDC tokens on your behalf."]

\* the conversion is declared done
Step3Completed(tx_data, amt) ==
    [name |-> "USD to EUR Conversion",
     description |-> <<"C", "o", "n", "v", "e", "r", "t", " ">> \o str(amt)
                     \o <<" ", "t", "U", "S", "D", "C", " ", "t", "o", " ", "t", "E", "U", "R", "C", " ", "v", "i", "a">>
                     \o <<" ", "T", "e", "s", "t", "R", "e", "m", "i", "t", "t", "a", "n", "c", "e", "B", "r", "i", "d", "g", "e">>,
     tx_data |-> tx_data,
     requires_signature |-> TRUE,
     status |-> "completed",
     explain |-> "This transaction converts your tUSDC to tEURC at the current exchange rate, simulating an international remittance."]

\* the description does not name the amount
Step3NoAmount(tx_data, amt) ==
    [name |-> "USD to EUR Conversion",
     description |-> <<"C", "o", "n", "v", "e", "r", "t">>
                     \o <<" ", "t", "U", "S", "D", "C", " ", "t", "o", " ", "t", "E", "U", "R", "C", " ", "v", "i", "a">>
                     \o <<" ", "T", "e", "s", "t", "R", "e", "m", "i", "t", "t", "a", "n", "c", "e", "B", "r", "i", "d", "g", "e">>,
     tx_data |-> tx_data,
     requires_signature |-> TRUE,
     status |-> "waiting_for_signature",
     explain |-> "This transaction converts your tUSDC to tEURC at the current exchange rate, simulating an international remittance."]

\* the description is the f-string with {amount} written as str(amount)
Step3(tx_data, amt) ==
    [name |-> "USD to EUR Conversion",
     description |-> <<"C", "o", "n", "v", "e", "r", "t", " ">> \o str(amt)
                     \o <<" ", "t", "U", "S", "D", "C", " ", "t", "o", " ", "t", "E", "U", "R", "C", " ", "v", "i", "a">>
                     \o <<" ", "T", "e", "s", "t", "R", "e", "m", "i", "t", "t", "a", "n", "c", "e", "B", "r", "i", "d", "g", "e">>,
     tx_data |-> tx_data,
     requires_signature |-> TRUE,
     status |-> "waiting_for_signature",
     explain |-> "This transaction converts your tUSDC to tEURC at the current exchange rate, simulating an international remittance."]

\* the balance check asks for a signature
Step4Signed ==
    [name |-> "Check tEURC Balance",
     description |-> "Check your tEURC balance after remittance",
     check_balance |-> [token_address |-> SEPOLIA_CONTRACTS["tEUR"]],
     requires_signature |-> TRUE,
     status |-> "waiting_for_execution",
     explain |-> "This step checks your tEURC balance after the remittance is complete."]

Step4 ==
    [name |-> "Check tEURC Balance",
     description |-> "Check your tEURC balance after remittance",
     check_balance |-> [token_address |-> SEPOLIA_CONTRACTS["tEUR"]],
     requires_signature |-> FALSE,
     status |-> "waiting_for_execution",
     explain |-> "This step checks your tEURC balance after the remittance is complete."]

\* the "status_summary" literal, given amount * 0.9
StatusSummary(estimated) ==
    [total_steps |-> 4,
     current_step |-> 1,
     completed_steps |-> 0,
     usd_amount |-> amount,
     estimated_eur_amount |-> estimated,
     recipient |-> Or(recipient_name, recipient_address),
     network |-> "Sepolia Testnet",
     using_test_tokens |-> TRUE]

\* the dict literal bound to result: parsed_data's keys first, a later key
\* replacing an earlier one of the same name
ResultDict ==
    Merge(parsed_data,
          [chain |-> "sepolia",
           using_test_tokens |-> TRUE,
           transaction_flow |-> transaction_flow,
           status_summary |-> status_summary,
           cost_simulation |-> cost_simulation,
           token_addresses |-> [tUSD |-> SEPOLIA_CONTRACTS["tUSD"],
                                tEUR |-> SEPOLIA_CONTRACTS["tEUR"],
                                bridge |-> SEPOLIA_CONTRACTS["TestRemittanceBridge"]]])

\* The oracle is asked and its reply parsed; a reply that holds no JSON
\* ends in the Exception of the parse fallback.
CallOracle ==
    /\ pc = "idle"
    /\ \E i \in 1..Len(OracleReplies) :
          IF OracleReplies[i].kind = "invalid"
          THEN Propagate("Exception", 127)
          ELSE /\ pc' = "defaults"
               /\ parsed_data' = OracleReplies[i]
               /\ UNCHANGED <<answer_vars, suite_vars, response_text, json_str, amount, recipient_address, recipient_name, cost_simulation,
                              transaction_flow, status_summary, result, exc>>

\* the fixed pair replaces whatever currencies the oracle named
SetDefaultsForcing ==
    /\ pc = "defaults"
    /\ IF parsed_data.kind # "object"
       THEN Propagate("AttributeError", 132)
       ELSE LET d == parsed_data.value
                a == Get(d, "recipient_address", JStr(<<>>))
            IN  /\ parsed_data' =
                       Merge(d, [source_currency |-> JStr(<<"U", "S", "D">>),
                                 target_currency |-> JStr(<<"E", "U", "R">>)])
                /\ amount' = Get(d, "amount", JInt(FALSE, 0, 0))
                /\ recipient_address' =
                       IF ~Truthy(a) \/ (a.t = "str" /\ a.v = <<"d", "e", "f", "a", "u", "l", "t">>)
                       THEN JStr(PlaceholderAddress) ELSE a
                /\ recipient_name' = Get(d, "recipient_name", JStr(<<>>))
                /\ pc' = "simulate"
                /\ UNCHANGED <<answer_vars, suite_vars, response_text, json_str, cost_simulation, transaction_flow, status_summary,
                               result, exc>>

\* "Validate and set defaults"; a parsed value that is no dict has no get
\* the placeholder is written into parsed_data
SetDefaultsWritingBack ==
    /\ pc = "defaults"
    /\ IF parsed_data.kind # "object"
       THEN Propagate("AttributeError", 132)
       ELSE LET d == parsed_data.value
                a == Get(d, "recipient_address", JStr(<<>>))
            IN  /\ parsed_data' =
                       Merge(d, [source_currency |-> Get(d, "source_currency", JStr(<<"U", "S", "D">>)),
                                 target_currency |-> Get(d, "target_currency", JStr(<<"E", "U", "R">>)),
                                 recipient_address |->
                                     IF ~Truthy(a) \/ (a.t = "str" /\ a.v = <<"d", "e", "f", "a", "u", "l", "t">>)
                                     THEN JStr(PlaceholderAddress) ELSE a])
                /\ amount' = Get(d, "amount", JInt(FALSE, 0, 0))
                /\ recipient_address' =
                       IF ~Truthy(a) \/ (a.t = "str" /\ a.v = <<"d", "e", "f", "a", "u", "l", "t">>)
                       THEN JStr(PlaceholderAddress) ELSE a
                /\ recipient_name' = Get(d, "recipient_name", JStr(<<>>))
                /\ pc' = "simulate"
                /\ UNCHANGED <<answer_vars, suite_vars, response_text, json_str, cost_simulation, transaction_flow, status_summary,
                               result, exc>>

SetDefaults ==
    /\ pc = "defaults"
    /\ IF parsed_data.kind # "object"
       THEN Propagate("AttributeError", 132)
       ELSE LET d == parsed_data.value
                a == Get(d, "recipient_address", JStr(<<>>))
            IN  /\ parsed_data' =
                       Merge(d, [source_currency |-> Get(d, "source_currency", JStr(<<"U", "S", "D">>)),
                                 target_currency |-> Get(d, "target_currency", JStr(<<"E", "U", "R">>))])
                /\ amount' = Get(d, "amount", JInt(FALSE, 0, 0))
                /\ recipient_address' =
                       IF ~Truthy(a) \/ (a.t = "str" /\ a.v = <<"d", "e", "f", "a", "u", "l", "t">>)
                       THEN JStr(PlaceholderAddress) ELSE a
                /\ recipient_name' = Get(d, "recipient_name", JStr(<<>>))
                /\ pc' = "simulate"
                /\ UNCHANGED <<answer_vars, suite_vars, response_text, json_str, cost_simulation, transaction_flow, status_summary,
                               result, exc>>

SimulateCost ==
    /\ pc = "simulate"
    /\ \E h \in 1..NumTokens :
          \E c \in {simulate_test_remittance_cost(recipient_address, amount, h)} :
              IF c.raised
              THEN Propagate(c.exc, 143)
              ELSE /\ cost_simulation' = c.value
                   /\ pc' = "step1"
                   /\ UNCHANGED <<answer_vars, suite_vars, response_text, json_str, parsed_data, amount, recipient_address, recipient_name,
                                  transaction_flow, status_summary, result, exc>>

\* the entry step is added to the flow under construction, or the exception
\* of its tx_data call tx leaves the function
AddStep(key, lineno, tx, step, next) ==
    IF tx.raised
    THEN Propagate(tx.exc, lineno)
    ELSE /\ transaction_flow' = Append(transaction_flow, <<key, step>>)
         /\ pc' = next
         /\ UNCHANGED <<answer_vars, suite_vars, response_text, json_str, parsed_data, amount, recipient_address, recipient_name,
                        cost_simulation, status_summary, result, exc>>

BuildStep1 ==
    /\ pc = "step1"
    /\ \E tx \in {generate_tusd_faucet_tx(recipient_address, amount)} :
          AddStep("step1", 154, tx, Step1(tx.value), "step2")

BuildStep2 ==
    /\ pc = "step2"
    /\ \E tx \in {generate_tusd_approval_tx(recipient_address,
                                             TEST_REMITTANCE_BRIDGE_ADDRESS, amount)} :
          AddStep("step2", 162, tx, Step2(tx.value), "step3")

BuildStep3 ==
    /\ pc = "step3"
    /\ \E tx \in {generate_test_remittance_tx(
                       recipient_address, amount,
                       Or(recipient_name, JStr(<<"R", "e", "m", "i", "t", "t", "a", "n", "c", "e", " ", "R", "e", "c", "i", "p", "i", "e", "n", "t">>)))} :
          AddStep("step3", 172, tx, Step3(tx.value, amount), "step4")

BuildStep4 ==
    /\ pc = "step4"
    /\ AddStep("step4", 184, Return(None), Step4, "summary")

BuildStatusSummary ==
    /\ pc = "summary"
    /\ \E estimated \in {TimesFloat(amount, FloatLit(9, -1))} :
           IF estimated.raised
           THEN Propagate(estimated.exc, 197)
           ELSE /\ status_summary' = StatusSummary(estimated.value)
                /\ pc' = "return"
                /\ UNCHANGED <<answer_vars, suite_vars, response_text, json_str, parsed_data, amount, recipient_address, recipient_name,
                               cost_simulation, transaction_flow, result, exc>>

ReturnResult ==
    /\ pc = "return"
    /\ result' = ResultDict
    /\ pc' = "returned"
    /\ UNCHANGED <<answer_vars, suite_vars, response_text, json_str, parsed_data, amount, recipient_address, recipient_name,
                   cost_simulation, transaction_flow, status_summary, exc>>

\* the flow is a list that outlives the call
NextRequestKeepingFlow ==
    /\ pc \in {"returned", "raised"}
    /\ pc' = "idle"
    /\ UNCHANGED <<answer_vars, suite_vars>>
    /\ response_text' = Unset
    /\ json_str' = Unset
    /\ parsed_data' = Unset
    /\ amount' = Unset
    /\ recipient_address' = Unset
    /\ recipient_name' = Unset
    /\ cost_simulation' = Unset
    /\ status_summary' = Unset
    /\ result' = Unset
    /\ exc' = Unset
    /\ UNCHANGED transaction_flow

\* the next request starts from nothing: no state outlives a call
NextRequest ==
    /\ pc \in {"returned", "raised"}
    /\ pc' = "idle"
    /\ UNCHANGED <<answer_vars, suite_vars>>
    /\ response_text' = Unset
    /\ json_str' = Unset
    /\ parsed_data' = Unset
    /\ amount' = Unset
    /\ recipient_address' = Unset
    /\ recipient_name' = Unset
    /\ cost_simulation' = Unset
    /\ transaction_flow' = <<>>
    /\ status_summary' = Unset
    /\ result' = Unset
    /\ exc' = Unset

Next ==
    \/ CallOracle
    \/ SetDefaults
    \/ SimulateCost
    \/ BuildStep1
    \/ BuildStep2
    \/ BuildStep3
    \/ BuildStep4
    \/ BuildStatusSummary
    \/ ReturnResult
    \/ NextRequest

Spec == Init /\ [][Next]_vars

(***************************************************************************)
(* format_address on its own: an address text is drawn, formatted, and the *)
(* outcome is formatted once more.  The text is held in recipient_address, *)
(* the outcome of the last call in result.                                 *)
(***************************************************************************)
\* the longest address text drawn
MaxAddressLen == 3

\* the characters of the texts drawn: digits, the letter of the prefix and
\* hexadecimal letters, each in both cases
AddressChars == {"0", "7", "x", "X", "a", "B"}

AddressTexts == UNION {[1..n -> AddressChars] : n \in 0..MaxAddressLen}

InitFormat ==
    /\ pc = "format"
    /\ recipient_address \in {JStr(s) : s \in AddressTexts}
    /\ AnswerIdle
    /\ SuiteIdle
    /\ response_text = Unset
    /\ json_str = Unset
    /\ parsed_data = Unset
    /\ amount = Unset
    /\ recipient_name = Unset
    /\ cost_simulation = Unset
    /\ transaction_flow = <<>>
    /\ status_summary = Unset
    /\ result = Unset
    /\ exc = Unset

FormatAddress ==
    /\ pc = "format"
    /\ result' = format_address(recipient_address.v)
    /\ pc' = "formatted"
    /\ UNCHANGED <<answer_vars, suite_vars, response_text, json_str, parsed_data, amount, recipient_address, recipient_name,
                   cost_simulation, transaction_flow, status_summary, exc>>

FormatAgain ==
    /\ pc = "formatted"
    /\ result' = format_address(result)
    /\ pc' = "formatted_twice"
    /\ UNCHANGED <<answer_vars, suite_vars, response_text, json_str, parsed_data, amount, recipient_address, recipient_name,
                   cost_simulation, transaction_flow, status_summary, exc>>

NextFormat ==
    \/ FormatAddress
    \/ FormatAgain

SpecFormat == InitFormat /\ [][NextFormat]_vars

(***************************************************************************)
(* The reply of the oracle as text (src/llm/remittance.py, lines 96-129):  *)
(* the text is drawn, the JSON is cut out of it and parsed.  A character   *)
(* is a one-character string; the double quote and the backtick are held   *)
(* by their names.                                                         *)
(***************************************************************************)
Whitespace == {" ", "\n", "\t", "\r"}

\* s.find(sub, start): the lowest 0-based position from start on where sub
\* occurs in s, -1 if there is none
find(s, sub, start) ==
    LET at(p) == p + Len(sub) <= Len(s) /\ SubSeq(s, p + 1, p + Len(sub)) = sub
    IN  IF \E p \in start..Len(s) : at(p)
        THEN CHOOSE p \in start..Len(s) : at(p) /\ \A k \in start..(p - 1) : ~at(k)
        ELSE -1

\* s.rfind(sub): the highest such position
rfind(s, sub) ==
    LET at(p) == p + Len(sub) <= Len(s) /\ SubSeq(s, p + 1, p + Len(sub)) = sub
    IN  IF \E p \in 0..Len(s) : at(p)
        THEN CHOOSE p \in 0..Len(s) : at(p) /\ \A k \in (p + 1)..Len(s) : ~at(k)
        ELSE -1

\* sub in s
In(sub, s) == find(s, sub, 0) >= 0

\* where a slice bound lands: a negative bound counts from the end
SliceBound(s, i) == IF i < 0 THEN Max(i + Len(s), 0) ELSE IF i > Len(s) THEN Len(s) ELSE i

\* s[start:end]
Slice(s, start, end) == SubSeq(s, SliceBound(s, start) + 1, SliceBound(s, end))

\* s.strip()
strip(s) ==
    IF \A j \in 1..Len(s) : s[j] \in Whitespace
    THEN <<>>
    ELSE SubSeq(s, CHOOSE j \in 1..Len(s) : s[j] \notin Whitespace
                                            /\ \A k \in 1..(j - 1) : s[k] \in Whitespace,
                   CHOOSE j \in 1..Len(s) : s[j] \notin Whitespace
                                            /\ \A k \in (j + 1)..Len(s) : s[k] \in Whitespace)

\* the string a sequence of characters spells
RECURSIVE Join(_)
Join(cs) == IF cs = <<>> THEN "" ELSE cs[1] \o Join(Tail(cs))

\* the index of the first character of s from index i on that is no
\* whitespace, Len(s) + 1 if there is none
SkipWhitespace(s, i) ==
    CHOOSE j \in i..(Len(s) + 1) : /\ (j = Len(s) + 1 \/ s[j] \notin Whitespace)
                                   /\ \A k \in i..(j - 1) : s[k] \in Whitespace

\* the outcome of scanning one JSON value: the value and the index after it
Scanned(v, i) == [ok |-> TRUE, v |-> v, i |-> i]

NotScanned == [ok |-> FALSE]

\* d with d[key] = v
WithKey(d, key, v) == [k \in DOMAIN d \cup {key} |-> IF k = key THEN v ELSE d[k]]

\* a JSON string whose opening quote is s[i]; a control character inside it
\* is an error (the texts drawn hold no backslash)
ScanString(s, i) ==
    LET close == find(s, <<"quote">>, i)
    IN  IF close < 0 \/ \E j \in (i + 1)..close : s[j] \in Whitespace \ {" "}
        THEN NotScanned
        ELSE Scanned(SubSeq(s, i + 1, close), close + 2)

\* a JSON number that starts at s[i] (the texts drawn hold integers of at
\* most nine digits only): a lone "0", or a run of digits that starts with
\* no "0"
ScanNumber(s, i) ==
    LET neg   == s[i] = "-"
        first == IF neg THEN i + 1 ELSE i
        stop  == CHOOSE j \in first..(Len(s) + 1) : /\ (j = Len(s) + 1 \/ ~IsDigit(s[j]))
                                                     /\ \A k \in first..(j - 1) : IsDigit(s[k])
        last  == IF stop > first /\ s[first] = "0" THEN first ELSE stop - 1
    IN  IF stop = first
        THEN NotScanned
        ELSE Scanned([t |-> "int",
                      v |-> [neg |-> neg /\ DigitsToNat(SubSeq(s, first, last)) # 0,
                             mag |-> NatToLimbs(DigitsToNat(SubSeq(s, first, last)))]],
                     last + 1)

RECURSIVE ScanValue(_, _)
RECURSIVE ScanMembers(_, _, _)

\* the JSON value that starts at s[i]: an object, a string or a number (the
\* texts drawn hold no array, no literal and no fraction)
ScanValue(s, i) ==
    IF i > Len(s)
    THEN NotScanned
    ELSE CASE s[i] = "{" ->
                  IF \E j \in {SkipWhitespace(s, i + 1)} : j <= Len(s) /\ s[j] = "}"
                  THEN Scanned([t |-> "dict", v |-> <<>>], SkipWhitespace(s, i + 1) + 1)
                  ELSE ScanMembers(s, SkipWhitespace(s, i + 1), <<>>)
           [] s[i] = "quote" ->
                  LET r == ScanString(s, i)
                  IN  IF r.ok THEN Scanned(JStr(r.v), r.i) ELSE NotScanned
           [] s[i] = "-" \/ IsDigit(s[i]) -> ScanNumber(s, i)
           [] OTHER -> NotScanned

\* the members of an object from s[i] on, d holding the members before them;
\* a key met again replaces the earlier value
ScanMembers(s, i, d) ==
    IF i > Len(s) \/ s[i] # "quote"
    THEN NotScanned
    ELSE LET key   == ScanString(s, i)
             colon == SkipWhitespace(s, key.i)
             val   == ScanValue(s, SkipWhitespace(s, colon + 1))
             after == SkipWhitespace(s, val.i)
         IN  IF ~key.ok THEN NotScanned
             ELSE IF colon > Len(s) \/ s[colon] # ":" THEN NotScanned
             ELSE IF ~val.ok THEN NotScanned
             ELSE IF after > Len(s) THEN NotScanned
             ELSE IF s[after] = "}"
                  THEN Scanned([t |-> "dict", v |-> WithKey(d, Join(key.v), val.v)], after + 1)
             ELSE IF s[after] = ","
                  THEN ScanMembers(s, SkipWhitespace(s, after + 1),
                                   WithKey(d, Join(key.v), val.v))
             ELSE NotScanned

\* json.loads(s): the one value of the text, whitespace around it allowed;
\* JSONDecodeError for any other text
json_loads(s) ==
    LET r == ScanValue(s, SkipWhitespace(s, 1))
    IN  IF r.ok /\ SkipWhitespace(s, r.i) > Len(s)
        THEN Return(IF r.v.t = "dict" THEN [kind |-> "object", value |-> r.v.v]
                                      ELSE [kind |-> r.v.t, value |-> r.v.v])
        ELSE Raise("JSONDecodeError")

Fence == <<"backtick", "backtick", "backtick">>

JsonFence == Fence \o <<"j", "s", "o", "n">>

\* the generic fence is looked for before the json fence
extract_generic_first(text) ==
    IF In(Fence, text)
    THEN strip(Slice(text, find(text, Fence, 0) + 3,
                     find(text, Fence, find(text, Fence, 0) + 3)))
    ELSE IF In(JsonFence, text)
    THEN strip(Slice(text, find(text, JsonFence, 0) + 7,
                     find(text, Fence, find(text, JsonFence, 0) + 7)))
    ELSE text

\* json_str: what lies between a json fence and the next fence, else between
\* the first two fences, else the whole text
extract_json(text) ==
    IF In(JsonFence, text)
    THEN strip(Slice(text, find(text, JsonFence, 0) + 7,
                     find(text, Fence, find(text, JsonFence, 0) + 7)))
    ELSE IF In(Fence, text)
    THEN strip(Slice(text, find(text, Fence, 0) + 3,
                     find(text, Fence, find(text, Fence, 0) + 3)))
    ELSE text

\* the braces themselves are left out
bracket_inside(text) == Slice(text, find(text, <<"{">>, 0) + 1, rfind(text, <<"}">>))

\* response_text[start_idx:end_idx]
bracket_slice(text) == Slice(text, find(text, <<"{">>, 0), rfind(text, <<"}">>) + 1)

\* start_idx >= 0 and end_idx > start_idx
has_brackets(text) ==
    find(text, <<"{">>, 0) >= 0 /\ rfind(text, <<"}">>) + 1 > find(text, <<"{">>, 0)

\* "Failed to parse the model response as JSON: "
ParseFailurePrefix ==
    <<"F", "a", "i", "l", "e", "d", " ", "t", "o", " ", "p", "a", "r", "s", "e", " ", "t", "h", "e", " ",
      "m", "o", "d", "e", "l", " ", "r", "e", "s", "p", "o", "n", "s", "e", " ", "a", "s", " ",
      "J", "S", "O", "N", ":", " ">>

\* the JSON objects the replies drawn carry, as text and as json.loads reads
\* them
ReplyObjects ==
    << [text  |-> <<"{", "quote", "a", "m", "o", "u", "n", "t", "quote", ":", " ", "1", "0", "}">>,
        value |-> [amount |-> JInt(FALSE, 10, 0)]],
       [text  |-> <<"{", "quote", "a", "m", "o", "u", "n", "t", "quote", ":", " ", "2", "0", ",", " ",
                    "quote", "r", "e", "c", "i", "p", "i", "e", "n", "t", "_", "n", "a", "m", "e", "quote",
                    ":", " ", "quote", "A", "l", "quote", "}">>,
        value |-> [amount |-> JInt(FALSE, 20, 0), recipient_name |-> JStr(<<"A", "l">>)]] >>

\* an object in a json fence and in a generic fence
JsonFenced(o) == JsonFence \o <<"\n">> \o o \o <<"\n">> \o Fence

Fenced(o) == Fence \o <<"\n">> \o o \o <<"\n">> \o Fence

\* what a reply is put together from: prose, fenced and bare objects, lone
\* fences and lone braces
ReplyPieces ==
    << <<"S", "u", "r", "e", ":", " ">>,
       JsonFenced(ReplyObjects[1].text),
       Fenced(ReplyObjects[2].text),
       ReplyObjects[1].text,
       JsonFence \o <<"\n">>,
       Fence,
       <<"{">>,
       <<"}">>,
       <<"\n">> >>

\* the most pieces a reply drawn is put together from
MaxPieces == 3

RECURSIVE Concat(_)
Concat(ps) == IF ps = <<>> THEN <<>> ELSE ps[1] \o Concat(Tail(ps))

ReplyContents ==
    {Concat([j \in 1..Len(c) |-> ReplyPieces[c[j]]]) :
        c \in UNION {[1..n -> 1..Len(ReplyPieces)] : n \in 0..MaxPieces}}

\* the exception leaves process_remittance_intent with a message
PropagateMessage(e, lineno, message) ==
    /\ pc' = "raised"
    /\ exc' = [type |-> e, lineno |-> lineno, message |-> message]
    /\ result' = Unset
    /\ UNCHANGED <<answer_vars, suite_vars>>
    /\ response_text' = Unset
    /\ json_str' = Unset
    /\ parsed_data' = Unset
    /\ amount' = Unset
    /\ recipient_address' = Unset
    /\ recipient_name' = Unset
    /\ cost_simulation' = Unset
    /\ transaction_flow' = <<>>
    /\ status_summary' = Unset

\* the content of the reply is stripped
ReceiveReply ==
    /\ pc = "idle"
    /\ \E content \in ReplyContents : response_text' = strip(content)
    /\ pc' = "extract"
    /\ UNCHANGED <<answer_vars, suite_vars, json_str, parsed_data, amount, recipient_address, recipient_name,
                   cost_simulation, transaction_flow, status_summary, result, exc>>

ExtractJson ==
    /\ pc = "extract"
    /\ json_str' = extract_json(response_text)
    /\ pc' = "parse"
    /\ UNCHANGED <<answer_vars, suite_vars, response_text, parsed_data, amount, recipient_address, recipient_name,
                   cost_simulation, transaction_flow, status_summary, result, exc>>

\* the first attempt: json.loads(json_str)
ParseJson ==
    /\ pc = "parse"
    /\ \E r \in {json_loads(json_str)} :
          IF r.raised
          THEN pc' = "fallback" /\ UNCHANGED parsed_data
          ELSE pc' = "defaults" /\ parsed_data' = r.value
    /\ UNCHANGED <<answer_vars, suite_vars, response_text, json_str, amount, recipient_address, recipient_name,
                   cost_simulation, transaction_flow, status_summary, result, exc>>

\* the handler of JSONDecodeError: the text between the outermost braces is
\* parsed; whatever fails in there ends in the Exception of line 127
ScanBrackets ==
    /\ pc = "fallback"
    /\ \E r \in {IF has_brackets(response_text)
                  THEN json_loads(bracket_slice(response_text))
                  ELSE Raise("Exception")} :
          IF r.raised
          THEN PropagateMessage("Exception", 127, ParseFailurePrefix \o response_text)
          ELSE /\ json_str' = bracket_slice(response_text)
               /\ parsed_data' = r.value
               /\ pc' = "defaults"
               /\ UNCHANGED <<answer_vars, suite_vars, response_text, amount, recipient_address, recipient_name,
                              cost_simulation, transaction_flow, status_summary, result, exc>>

NextParse ==
    \/ ReceiveReply
    \/ ExtractJson
    \/ ParseJson
    \/ ScanBrackets
    \/ NextRequest

SpecParse == Init /\ [][NextParse]_vars

(***************************************************************************)
(* The classifier and the two routers: classify_transaction and            *)
(* process_transaction (src/llm/handler.py), get_answer (src/main.py).     *)
(* What the functions of llm.transfer, llm.swap and llm.buy and            *)
(* process_remittance_intent do when called is left open here: each        *)
(* returns a value or raises.                                              *)
(***************************************************************************)
valid_responses == <<"0", "1", "2", "3", "4">>

\* s.count(c) for a character c
count(s, c) == Cardinality({j \in 1..Len(s) : s[j] = c})

\* the for loop of get_valid_response from the i-th valid response on;
\* found is {} for None and {d} for the integer d
RECURSIVE ValidFrom(_, _, _)
ValidFrom(text, i, found) ==
    IF i > Len(valid_responses)
    THEN IF found # {} THEN CHOOSE d \in found : TRUE ELSE 0
    ELSE IF count(text, valid_responses[i]) = 1
         THEN IF found # {} THEN 0 ELSE ValidFrom(text, i + 1, {DigitVal(valid_responses[i])})
         ELSE ValidFrom(text, i + 1, found)

\* the first valid response that occurs once wins
get_first_valid(text) ==
    IF \E i \in 1..Len(valid_responses) : count(text, valid_responses[i]) = 1
    THEN DigitVal(valid_responses[CHOOSE i \in 1..Len(valid_responses) :
                                      /\ count(text, valid_responses[i]) = 1
                                      /\ \A k \in 1..(i - 1) : count(text, valid_responses[k]) # 1])
    ELSE 0

get_valid_response(text) == ValidFrom(text, 1, {})

\* the longest reply of the classifier drawn
MaxResponseLen == 3

\* the characters of the replies drawn: the valid responses and a letter
ResponseChars == {"0", "1", "2", "3", "4", "x"}

ClassifierReplies == UNION {[1..n -> ResponseChars] : n \in 0..MaxResponseLen}

\* what a called function hands back when it returns
ValueOf(callee) == [t |-> "returned", by |-> callee]

\* get_answer ends in HTTPException(status_code=500), raised at line lineno
HttpError(lineno) == [kind |-> "HTTPException", status_code |-> 500, lineno |-> lineno]

\* a request arrives at one of the two routers
Enter ==
    /\ api_pc = "idle"
    /\ entry' \in {"get_answer", "process_transaction"}
    /\ api_pc' = "classify"
    /\ UNCHANGED <<response, classification, query_type, calls, answer>>
    /\ UNCHANGED <<remittance_vars, suite_vars>>

\* classify_transaction: the classifier replies and the reply is read, or
\* the request to the classifier fails
ClassifyTransaction ==
    /\ api_pc = "classify"
    /\ calls' = Append(calls, "classify_transaction")
    /\ \/ \E text \in ClassifierReplies :
              /\ response' = strip(text)
              /\ classification' = get_valid_response(strip(text))
              /\ api_pc' = "route"
              /\ UNCHANGED answer
       \/ /\ answer' = IF entry = "get_answer"
                        THEN HttpError(55)
                        ELSE [kind |-> "raised", by |-> "classify_transaction"]
          /\ api_pc' = "done"
          /\ UNCHANGED <<response, classification>>
    /\ UNCHANGED <<entry, query_type>>
    /\ UNCHANGED <<remittance_vars, suite_vars>>

\* the conversion of get_answer: callee is called and returns, or raises
ConvertWith(callee, type) ==
    /\ calls' = Append(calls, callee)
    /\ \/ /\ query_type' = type
          /\ answer' = [kind  |-> "returned",
                        value |-> [transaction_type |-> type, response |-> ValueOf(callee)]]
       \/ /\ answer' = HttpError(84)
          /\ UNCHANGED query_type

\* classification 4 is a remittance
GetAnswerWithRemittance ==
    /\ api_pc = "route"
    /\ entry = "get_answer"
    /\ CASE classification = 0 -> answer' = HttpError(84) /\ UNCHANGED <<query_type, calls>>
         [] classification = 1 -> ConvertWith("transfer.convert_transfer_intent", "transfer")
         [] classification = 2 -> ConvertWith("swap.convert_transaction", "swap")
         [] classification = 3 -> ConvertWith("buy.convert_buy_intent", "buy")
         [] OTHER -> ConvertWith("process_remittance_intent", "remittance")
    /\ api_pc' = "done"
    /\ UNCHANGED <<entry, response, classification>>
    /\ UNCHANGED <<remittance_vars, suite_vars>>

\* get_answer after the classification: whatever is raised in the
\* conversion, the HTTPException of classification 0 and of the last branch
\* included, is raised again as the HTTPException of line 84
GetAnswer ==
    /\ api_pc = "route"
    /\ entry = "get_answer"
    /\ CASE classification = 0 -> answer' = HttpError(84) /\ UNCHANGED <<query_type, calls>>
         [] classification = 1 -> ConvertWith("transfer.convert_transfer_intent", "transfer")
         [] classification = 2 -> ConvertWith("swap.convert_transaction", "swap")
         [] classification = 3 -> ConvertWith("buy.convert_buy_intent", "buy")
         [] OTHER -> answer' = HttpError(84) /\ UNCHANGED <<query_type, calls>>
    /\ api_pc' = "done"
    /\ UNCHANGED <<entry, response, classification>>
    /\ UNCHANGED <<remittance_vars, suite_vars>>

\* a branch of process_transaction that calls callee: what callee raises
\* leaves process_transaction
ProcessWith(callee, type) ==
    /\ calls' = Append(calls, callee)
    /\ \/ answer' = [kind  |-> "returned",
                     value |-> [transaction_type |-> type, response |-> ValueOf(callee)]]
       \/ answer' = [kind |-> "raised", by |-> callee]

\* a branch of process_transaction that returns an error payload
ProcessError(type, error) ==
    /\ answer' = [kind  |-> "returned",
                  value |-> [transaction_type |-> type, response |-> [error |-> error]]]
    /\ UNCHANGED calls

\* process_transaction after the classification
ProcessTransaction ==
    /\ api_pc = "route"
    /\ entry = "process_transaction"
    /\ CASE classification = 1 -> ProcessWith("process_transfer_intent", "transfer")
         [] classification = 2 -> ProcessWith("process_swap_intent", "swap")
         [] classification = 3 -> ProcessError("buy", "Buy functionality has been removed")
         [] classification = 4 -> ProcessWith("process_remittance_intent", "remittance")
         [] OTHER -> ProcessError("unknown", "Could not determine the transaction type.")
    /\ api_pc' = "done"
    /\ UNCHANGED <<entry, response, classification, query_type>>
    /\ UNCHANGED <<remittance_vars, suite_vars>>

\* the request is over: its locals are gone
Leave ==
    /\ api_pc = "done"
    /\ api_pc' = "idle"
    /\ entry' = "none"
    /\ response' = <<>>
    /\ classification' = NoInt
    /\ query_type' = NoText
    /\ calls' = <<>>
    /\ answer' = [kind |-> "none"]
    /\ UNCHANGED <<remittance_vars, suite_vars>>

NextAnswer ==
    \/ Enter
    \/ ClassifyTransaction
    \/ GetAnswer
    \/ ProcessTransaction
    \/ Leave

SpecAnswer == Init /\ [][NextAnswer]_vars

(***************************************************************************)
(* PromptTestingFramework (src/qa/experiment_framework.py): run_test_suite *)
(* with run_test_case, compare_intents and analyze_errors.  The numbers in *)
(* the intents drawn are integers that are not negative.                   *)
(***************************************************************************)
\* the default of the parameter max_retries of __init__
max_retries == 3

\* a < b for two doubles
FloatLess(a, b) ==
    LET e == IF a.e < b.e THEN a.e ELSE b.e
        x == ShiftLeft(a.m, a.e - e)
        y == ShiftLeft(b.m, b.e - e)
    IN  IF a.neg # b.neg THEN a.neg /\ (x # <<>> \/ y # <<>>)
        ELSE IF a.neg THEN ~GeqBig(y, x)
        ELSE ~GeqBig(x, y)

\* d.get(key)
Lookup(d, key) == IF key \in DOMAIN d THEN d[key] ELSE None

\* isinstance(v, (int, float)), isinstance(v, str)
IsNumber(v) == v.t \in {"int", "float"}

IsText(v) == v.t = "str"

\* x == y for the values drawn: None, integers and texts
PyEqual(x, y) == x.t = y.t /\ (x.t = "NoneType" \/ x.v = y.v)

\* abs(act_amount - exp_amount) / exp_amount < 0.1, in doubles
RelativeError(act_amount, exp_amount) ==
    FloatLess(FloatDiv(FloatOfInt([neg |-> FALSE,
                                   mag |-> IF GeqBig(act_amount.mag, exp_amount.mag)
                                           THEN SubBig(act_amount.mag, exp_amount.mag)
                                           ELSE SubBig(exp_amount.mag, act_amount.mag)]),
                       FloatOfInt(exp_amount)),
              FloatLit(1, -1))

\* the amounts of the intents drawn
DrawnAmounts == {JInt(FALSE, n, 0).v : n \in {5, 10, 12, 100, 105}}

\* RelativeError of the amounts drawn, computed once
RelativeErrors ==
    CHOOSE errors \in {[t \in DrawnAmounts \X DrawnAmounts |-> RelativeError(t[1], t[2])]} :
        Forced(errors)

RelativeErrorSmall(act_amount, exp_amount) == RelativeErrors[<<act_amount.v, exp_amount.v>>]

\* how compare_intents matches an expected value with the actual one in
\* its two loops: texts whatever their case, numbers within a tenth of the
\* expected one unless that is 0, anything else by ==
ValueMatches(expected_value, actual_value) ==
    IF IsText(expected_value) /\ IsText(actual_value)
    THEN lower(expected_value.v) = lower(actual_value.v)
    ELSE IF IsNumber(expected_value) /\ IsNumber(actual_value) /\ expected_value.v.mag # <<>>
    THEN RelativeErrorSmall(actual_value, expected_value)
    ELSE PyEqual(expected_value, actual_value)

\* an expected None is not checked when the actual response has the key
Skipped(actual_resp, expected_resp, key) ==
    expected_resp[key].t = "NoneType" /\ key \in DOMAIN actual_resp

\* the text of a transaction_type, "" for None
TypeName(intent) ==
    IF "transaction_type" \in DOMAIN intent /\ IsText(intent.transaction_type)
    THEN Join(intent.transaction_type.v)
    ELSE ""

\* d, a defaultdict of {"total", "correct"}, with both counters of every key
\* in keys one higher
Counted(d, keys) ==
    [k \in DOMAIN d \cup keys |->
        IF k \in keys
        THEN [total   |-> (IF k \in DOMAIN d THEN d[k].total ELSE 0) + 1,
              correct |-> (IF k \in DOMAIN d THEN d[k].correct ELSE 0) + 1]
        ELSE d[k]]

\* the branch of compare_intents for remittances: the amount, the chain
RemittanceMatches(actual_resp, expected_resp) ==
    LET exp_amount == Lookup(expected_resp, "amount")
        act_amount == Lookup(actual_resp, "amount")
        exp_chain  == Lookup(expected_resp, "chain")
        act_chain  == Lookup(actual_resp, "chain")
        amount_match ==
            IF exp_amount.t = "NoneType" THEN TRUE
            ELSE IF IsNumber(act_amount) /\ IsNumber(exp_amount)
            THEN IF exp_amount.v.mag # <<>>
                 THEN RelativeErrorSmall(act_amount, exp_amount)
                 ELSE act_amount.v.mag = <<>>
            ELSE PyEqual(exp_amount, act_amount)
        chain_match ==
            IF exp_chain.t = "NoneType" THEN TRUE
            ELSE IF IsText(act_chain) /\ IsText(exp_chain)
            THEN lower(act_chain.v) = lower(exp_chain.v)
            ELSE PyEqual(exp_chain, act_chain)
    IN  [is_correct    |-> amount_match /\ chain_match,
         param_matches |->
             [k \in {"transaction_type", "recipient_address"}
                    \cup {j \in {"amount"} : exp_amount.t # "NoneType"}
                    \cup {j \in {"chain"} : exp_chain.t # "NoneType"} |->
                 CASE k = "amount" -> amount_match
                   [] k = "chain" -> chain_match
                   [] OTHER -> TRUE]]

\* the branch for swaps: a toAsset counts when there is one, and only the
\* amount and the chain decide
SwapMatches(actual_resp, expected_resp) ==
    LET matches == [key \in DOMAIN expected_resp |->
                       \/ Skipped(actual_resp, expected_resp, key)
                       \/ key = "toAsset" /\ Lookup(actual_resp, key).t # "NoneType"
                       \/ ValueMatches(expected_resp[key], Lookup(actual_resp, key))]
    IN  [is_correct    |-> \A key \in DOMAIN matches : matches[key] \/ key \notin {"amount", "chain"},
         param_matches |-> Merge([transaction_type |-> TRUE], matches)]

\* the branch for transfers and everything else
OtherMatches(actual_resp, expected_resp) ==
    LET matches == [key \in DOMAIN expected_resp |->
                       \/ Skipped(actual_resp, expected_resp, key)
                       \/ ValueMatches(expected_resp[key], Lookup(actual_resp, key))]
    IN  [is_correct    |-> \A key \in DOMAIN matches :
                               matches[key] \/ key \notin {"token", "chain", "amount", "recipientAddress"},
         param_matches |-> Merge([transaction_type |-> TRUE], matches)]

\* the keys whose parameter_accuracy the last branch counts: those matched
\* without being skipped
CountedKeys(actual_resp, expected_resp) ==
    {key \in DOMAIN expected_resp :
        /\ ~Skipped(actual_resp, expected_resp, key)
        /\ ValueMatches(expected_resp[key], Lookup(actual_resp, key))}

\* intent.get("response", {})
ResponseOf(intent) == IF "response" \in DOMAIN intent THEN intent.response ELSE <<>>

\* compare_intents(actual, expected): what it returns and what it makes of
\* metrics["parameter_accuracy"], accuracy before the call
compare_intents(actual, expected, accuracy) ==
    IF ~PyEqual(Lookup(actual, "transaction_type"), Lookup(expected, "transaction_type"))
    THEN [is_correct |-> FALSE, param_matches |-> [transaction_type |-> FALSE],
          parameter_accuracy |-> accuracy]
    ELSE IF TypeName(expected) = "remittance"
    THEN Merge(RemittanceMatches(ResponseOf(actual), ResponseOf(expected)),
               [parameter_accuracy |-> accuracy])
    ELSE IF TypeName(expected) = "swap"
    THEN Merge(SwapMatches(ResponseOf(actual), ResponseOf(expected)),
               [parameter_accuracy |-> accuracy])
    ELSE Merge(OtherMatches(ResponseOf(actual), ResponseOf(expected)),
               [parameter_accuracy |-> Counted(accuracy,
                                               CountedKeys(ResponseOf(actual), ResponseOf(expected)))])

\* d, a defaultdict(int), with the counter of every key in keys one higher
Bumped(d, keys) ==
    [k \in DOMAIN d \cup keys |->
        (IF k \in DOMAIN d THEN d[k] ELSE 0) + (IF k \in keys THEN 1 ELSE 0)]

\* the keys of metrics["error_types"] that analyze_errors counts
ErrorKeys(actual, param_matches) ==
    IF "error" \in DOMAIN actual THEN {"request_failure"}
    ELSE IF ~param_matches["transaction_type"] THEN {"intent_misclassification"}
    ELSE {"parameter_extraction" : p \in {k \in DOMAIN param_matches : ~param_matches[k]}}
         \cup {"param_" \o p \o "_error" : p \in {k \in DOMAIN param_matches : ~param_matches[k]}}

\* the expected intents of the test cases drawn
ExpectedIntents ==
    << [transaction_type |-> JStr(<<"t", "r", "a", "n", "s", "f", "e", "r">>),
        response |-> [amount |-> JInt(FALSE, 10, 0), token |-> JStr(<<"E", "T", "H">>)]],
       [transaction_type |-> JStr(<<"r", "e", "m", "i", "t", "t", "a", "n", "c", "e">>),
        response |-> [amount |-> JInt(FALSE, 100, 0),
                      chain |-> JStr(<<"s", "e", "p", "o", "l", "i", "a">>)]],
       [transaction_type |-> JStr(<<"s", "w", "a", "p">>),
        response |-> [amount |-> JInt(FALSE, 5, 0), toAsset |-> JStr(<<"U", "S", "D", "C">>)]],
       [response |-> [amount |-> JInt(FALSE, 10, 0), note |-> None]] >>

\* the bodies of the responses with status 200 drawn, as response.json()
\* reads them
Payloads ==
    << [transaction_type |-> JStr(<<"t", "r", "a", "n", "s", "f", "e", "r">>),
        response |-> [amount |-> JInt(FALSE, 12, 0), token |-> JStr(<<"e", "t", "h">>)]],
       [transaction_type |-> JStr(<<"r", "e", "m", "i", "t", "t", "a", "n", "c", "e">>),
        response |-> [amount |-> JInt(FALSE, 105, 0),
                      chain |-> JStr(<<"S", "e", "p", "o", "l", "i", "a">>)]],
       [transaction_type |-> JStr(<<"s", "w", "a", "p">>),
        response |-> [amount |-> JInt(FALSE, 5, 0), toAsset |-> JStr(<<"0", "x", "a", "b">>)]] >>

\* the most test cases of a suite drawn
MaxCases == 2

\* the test cases drawn: a prompt and an expected intent each
TestCases == {[Prompt |-> i, ExpectedIntent |-> ExpectedIntents[i]] : i \in 1..Len(ExpectedIntents)}

\* the response times drawn, in seconds
ResponseTimes == {2}
\* the suite starts without reset_metrics: the results and the metrics of
\* the suite before stay
RunTestSuiteCarrying ==
    /\ qa_pc \in {"idle", "returned"}
    /\ test_cases' \in UNION {[1..n -> TestCases] : n \in 0..MaxCases}
    /\ case_no' = 0
    /\ qa_pc' = "case"
    /\ UNCHANGED <<metrics, results, attempt, sent, slept, actual_intent, response_time>>
    /\ UNCHANGED <<remittance_vars, answer_vars>>

\* run_test_suite is called: the metrics and the results are reset
RunTestSuite ==
    /\ qa_pc \in {"idle", "returned"}
    /\ test_cases' \in UNION {[1..n -> TestCases] : n \in 0..MaxCases}
    /\ metrics' = FreshMetrics
    /\ results' = <<>>
    /\ case_no' = 0
    /\ qa_pc' = "case"
    /\ UNCHANGED <<attempt, sent, slept, actual_intent, response_time>>
    /\ UNCHANGED <<remittance_vars, answer_vars>>

\* the next test case: run_test_case is called and enters its loop
NextCase ==
    /\ qa_pc = "case"
    /\ case_no < Len(test_cases)
    /\ case_no' = case_no + 1
    /\ attempt' = 0
    /\ sent' = <<>>
    /\ slept' = <<>>
    /\ qa_pc' = IF max_retries > 0 THEN "send" ELSE "failed"
    /\ UNCHANGED <<metrics, results, test_cases, actual_intent, response_time>>
    /\ UNCHANGED <<remittance_vars, answer_vars>>

\* one attempt: the request is posted; the response has status 200 and a
\* body that response.json() reads and run_test_case returns, or it has
\* status 200 and another body, or another status, or requests.post raises;
\* 500 stands for every status but 200, 0 for no response at all
SendRequest ==
    /\ qa_pc = "send"
    /\ \/ \E p \in 1..Len(Payloads), t \in ResponseTimes :
              /\ sent' = Append(sent, [status |-> 200, json |-> TRUE])
              /\ actual_intent' = Payloads[p]
              /\ response_time' = t
              /\ qa_pc' = "record"
       \/ /\ sent' = Append(sent, [status |-> 200, json |-> FALSE])
          /\ qa_pc' = "wait"
          /\ UNCHANGED <<actual_intent, response_time>>
       \/ /\ sent' = Append(sent, [status |-> 500, json |-> TRUE])
          /\ qa_pc' = "wait"
          /\ UNCHANGED <<actual_intent, response_time>>
       \/ /\ sent' = Append(sent, [status |-> 0, json |-> FALSE])
          /\ qa_pc' = "wait"
          /\ UNCHANGED <<actual_intent, response_time>>
    /\ UNCHANGED <<metrics, results, test_cases, case_no, attempt, slept>>
    /\ UNCHANGED <<remittance_vars, answer_vars>>

\* after a failed attempt that is not the last: time.sleep(2**attempt), and
\* the next attempt
Backoff ==
    /\ qa_pc = "wait"
    /\ attempt < max_retries - 1
    /\ slept' = Append(slept, Pow2(attempt))
    /\ attempt' = attempt + 1
    /\ qa_pc' = "send"
    /\ UNCHANGED <<metrics, results, test_cases, case_no, sent, actual_intent, response_time>>
    /\ UNCHANGED <<remittance_vars, answer_vars>>

\* the failure is not counted
GiveUpUncounted ==
    /\ \/ qa_pc = "wait" /\ attempt >= max_retries - 1
       \/ qa_pc = "failed"
    /\ actual_intent' = [error |-> "All requests failed"]
    /\ response_time' = 0
    /\ qa_pc' = "record"
    /\ UNCHANGED <<metrics, results, test_cases, case_no, attempt, sent, slept>>
    /\ UNCHANGED <<remittance_vars, answer_vars>>

\* after the last attempt has failed: the loop is over
GiveUp ==
    /\ \/ qa_pc = "wait" /\ attempt >= max_retries - 1
       \/ qa_pc = "failed"
    /\ metrics' = [metrics EXCEPT !.failed_requests = @ + 1]
    /\ actual_intent' = [error |-> "All requests failed"]
    /\ response_time' = 0
    /\ qa_pc' = "record"
    /\ UNCHANGED <<results, test_cases, case_no, attempt, sent, slept>>
    /\ UNCHANGED <<remittance_vars, answer_vars>>

\* the metrics after a test case whose comparison gave cmp
Recorded(expected_intent, cmp) ==
    [total              |-> metrics.total + 1,
     correct            |-> metrics.correct + (IF cmp.is_correct THEN 1 ELSE 0),
     failed_requests    |-> metrics.failed_requests,
     by_intent_type     |->
         [k \in DOMAIN metrics.by_intent_type
                \cup {IF TypeName(expected_intent) = "" THEN "unknown" ELSE TypeName(expected_intent)} |->
             IF k = (IF TypeName(expected_intent) = "" THEN "unknown" ELSE TypeName(expected_intent))
             THEN [total   |-> (IF k \in DOMAIN metrics.by_intent_type
                                THEN metrics.by_intent_type[k].total ELSE 0) + 1,
                   correct |-> (IF k \in DOMAIN metrics.by_intent_type
                                THEN metrics.by_intent_type[k].correct ELSE 0)
                               + (IF cmp.is_correct THEN 1 ELSE 0)]
             ELSE metrics.by_intent_type[k]],
     parameter_accuracy |-> cmp.parameter_accuracy,
     error_types        |-> IF cmp.is_correct THEN metrics.error_types
                            ELSE Bumped(metrics.error_types,
                                        ErrorKeys(actual_intent, cmp.param_matches)),
     response_times     |-> Append(metrics.response_times, response_time)]

\* run_test_case has returned and its frame is gone: the response time is
\* recorded, the intents are compared, the metrics updated, the errors
\* analyzed and the result appended
RecordCase ==
    /\ qa_pc = "record"
    /\ \E cmp \in {compare_intents(actual_intent, test_cases[case_no].ExpectedIntent,
                                  metrics.parameter_accuracy)} :
          /\ metrics' = Recorded(test_cases[case_no].ExpectedIntent, cmp)
          /\ results' = Append(results,
                               [prompt          |-> test_cases[case_no].Prompt,
                                expected_intent |-> test_cases[case_no].ExpectedIntent,
                                actual_intent   |-> actual_intent,
                                is_correct      |-> cmp.is_correct,
                                param_matches   |-> cmp.param_matches,
                                response_time   |-> response_time])
    /\ qa_pc' = "case"
    /\ attempt' = 0
    /\ sent' = <<>>
    /\ slept' = <<>>
    /\ UNCHANGED <<test_cases, case_no, actual_intent, response_time>>
    /\ UNCHANGED <<remittance_vars, answer_vars>>

\* the loop over the test cases is over: run_test_suite returns its summary
\* and its locals are gone
EndSuite ==
    /\ qa_pc = "case"
    /\ case_no = Len(test_cases)
    /\ qa_pc' = "returned"
    /\ test_cases' = <<>>
    /\ case_no' = 0
    /\ actual_intent' = Unset
    /\ response_time' = 0
    /\ UNCHANGED <<metrics, results, attempt, sent, slept>>
    /\ UNCHANGED <<remittance_vars, answer_vars>>

NextSuite ==
    \/ RunTestSuite
    \/ NextCase
    \/ SendRequest
    \/ Backoff
    \/ GiveUp
    \/ RecordCase
    \/ EndSuite

SpecSuite == Init /\ [][NextSuite]_vars

(***************************************************************************)
(* The claims                                                              *)
(***************************************************************************)
\* the calldata of the i-th step of flow f
DataOf(f, i) == f[i][2].tx_data.data

\* what stands in the amount position of the calldata of step i (1, 2 or
\* 3): all that follows "0x" and the selector (and, in step 2, the spender
\* word), up to the three memo words of step 3
AmountField(f, i) ==
    CASE i = 1 -> SubSeq(DataOf(f, 1), 11, Len(DataOf(f, 1)))
      [] i = 2 -> SubSeq(DataOf(f, 2), 75, Len(DataOf(f, 2)))
      [] i = 3 -> SubSeq(DataOf(f, 3), 11, Len(DataOf(f, 3)) - 192)

Selector(f, i) == SubSeq(DataOf(f, i), 3, 10)

\* C1: every returned result has a transaction_flow of exactly the four
\* steps step1..step4, in the order mint, approve, convert, check_balance;
\* steps 1, 2 and 3 require a signature and step 4 does not.
C1_FourStepsInFixedOrder ==
    pc = "returned" =>
        LET f == result.transaction_flow
        IN  /\ [i \in 1..Len(f) |-> f[i][1]] = <<"step1", "step2", "step3", "step4">>
            /\ Selector(f, 1) = <<"a", "0", "7", "1", "2", "d", "6", "8">>
            /\ Selector(f, 2) = <<"0", "9", "5", "e", "a", "7", "b", "3">>
            /\ Selector(f, 3) = <<"f", "f", "6", "d", "c", "6", "c", "f">>
            /\ "check_balance" \in DOMAIN f[4][2]
            /\ \A i \in 1..3 : f[i][2].requires_signature = TRUE
            /\ f[4][2].requires_signature = FALSE

\* a flow is returned for the oracle's first example
C1_Witness ==
    /\ pc = "returned"
    /\ Len(result.transaction_flow) = 4
    /\ result.amount = JInt(FALSE, 100, 0)

\* C2: when the cost simulation, a step or the summary fails, the caller
\* gets an exception and no result; a result is only ever returned with all
\* four steps, never with some of them.
C2_NoPartialResult ==
    /\ pc = "raised" => result = Unset /\ exc # Unset
    /\ result # Unset => pc = "returned"
    /\ pc = "returned" =>
           /\ exc = Unset
           /\ Len(result.transaction_flow) = 4
           /\ "status_summary" \in DOMAIN result
           /\ "cost_simulation" \in DOMAIN result

\* the summary failed after all four steps were built
C2_Witness == pc = "raised" /\ exc.type = "TypeError" /\ exc.lineno = 197

\* the amount is negative or float() does not take it
InvalidAmount(a) == \E f \in {float(a)} : f.raised \/ f.value.neg

\* C3: for an amount that is negative or not a number no calldata is ever
\* produced and no flow is returned.
C3_InvalidAmountRejected ==
    amount # Unset /\ InvalidAmount(amount) =>
        transaction_flow = <<>> /\ pc # "returned"

\* C4: in every returned flow the amount in the mint calldata, in the approve
\* calldata and in the bridge calldata is one and the same, the 064x text of
\* the extracted amount in base units.
C4_SameAmountInAllSteps ==
    pc = "returned" =>
        LET f == result.transaction_flow
        IN  /\ AmountField(f, 1) = AmountField(f, 2)
            /\ AmountField(f, 2) = AmountField(f, 3)
            /\ AmountField(f, 1)
                   = Format064x(BaseUnits(amount, TOKEN_DECIMALS["tUSD"]).value)

\* the flow for 12.5 is returned, with 12500000 (0xbebc20) as the approved amount
C4_Witness ==
    /\ pc = "returned"
    /\ amount = JFloat(FALSE, 125, -1)
    /\ AmountField(result.transaction_flow, 2) = zfill(<<"b", "e", "b", "c", "2", "0">>, 64)

\* the printable ASCII characters, from the blank (32) on; the double quote,
\* the backslash and the backtick are held by their names
AsciiChars ==
    <<" ", "!", "quote", "#", "$", "%", "&", "'", "(", ")", "*", "+", ",", "-", ".", "/",
      "0", "1", "2", "3", "4", "5", "6", "7", "8", "9", ":", ";", "<", "=", ">", "?",
      "@", "A", "B", "C", "D", "E", "F", "G", "H", "I", "J", "K", "L", "M", "N", "O",
      "P", "Q", "R", "S", "T", "U", "V", "W", "X", "Y", "Z", "[", "backslash", "]", "^", "_",
      "backtick", "a", "b", "c", "d", "e", "f", "g", "h", "i", "j", "k", "l", "m", "n", "o",
      "p", "q", "r", "s", "t", "u", "v", "w", "x", "y", "z", "{", "|", "}", "~">>

AsciiCode(c) == 31 + CHOOSE j \in 1..Len(AsciiChars) : AsciiChars[j] = c

\* the two hex digits of each byte of an ASCII text
Utf8Hex(text) ==
    [j \in 1..(2 * Len(text)) |->
        LET code == AsciiCode(text[(j + 1) \div 2])
        IN  HexDigits[(IF j % 2 = 1 THEN code \div 16 ELSE code % 16) + 1]]

\* the ABI encoding of (uint256, string) after the uint256: the offset of
\* the string past the two-word head, its length in bytes, and its bytes
\* padded with zeros on the right to whole 32-byte words
AbiStringTail(text) ==
    zfill(<<"4", "0">>, 64)
    \o Format064x([neg |-> FALSE, mag |-> NatToLimbs(Len(text))])
    \o Utf8Hex(text)
    \o Repeat("0", (64 - ((2 * Len(text)) % 64)) % 64)

\* C5: the bridge calldata after the selector and the amount is the ABI
\* encoding of the memo passed to the encoder: offset word, length word,
\* padded bytes of the recipient name or of "Remittance Recipient".
C5_MemoIsEncoded ==
    Len(transaction_flow) >= 3 =>
        LET data == DataOf(transaction_flow, 3)
            memo == Or(recipient_name, JStr(<<"R", "e", "m", "i", "t", "t", "a", "n", "c", "e", " ", "R", "e", "c", "i", "p", "i", "e", "n", "t">>)).v
        IN  SubSeq(data, Len(data) - 191, Len(data)) = AbiStringTail(memo)
            /\ Len(AbiStringTail(memo)) = 192

\* C6: in every returned flow the tx_data of steps 1, 2 and 3 has exactly
\* the keys to, from, data, value, gasLimit, gasPrice and chainId: no nonce,
\* no gas, no chain.
C6_DescriptorKeys ==
    pc = "returned" =>
        \A i \in 1..3 :
            DOMAIN result.transaction_flow[i][2].tx_data
                = {"to", "from", "data", "value", "gasLimit", "gasPrice", "chainId"}

\* a flow is returned for an oracle object that itself carries nonce and chain
C6_Witness ==
    /\ pc = "returned"
    /\ "nonce" \in DOMAIN result
    /\ "nonce" \notin DOMAIN result.transaction_flow[1][2].tx_data

\* C7: step 4 of every returned flow has a tx_data field, whose value is
\* {check_balance: {token_address}} with the tEUR contract address.
C7_Step4HasTxData ==
    pc = "returned" =>
        LET step4 == result.transaction_flow[4][2]
        IN  /\ "tx_data" \in DOMAIN step4
            /\ step4.tx_data = [check_balance |->
                                   [token_address |-> SEPOLIA_CONTRACTS["tEUR"]]]

\* C8: every returned result has all nine top-level keys of the result shape.
C8_TopLevelKeys ==
    pc = "returned" =>
        {"source_currency", "target_currency", "amount", "chain", "using_test_tokens",
         "transaction_flow", "status_summary", "cost_simulation", "token_addresses"}
            \subseteq DOMAIN result

\* every step of f is in its initial state
InitialStatuses(f) ==
    \A i \in 1..Len(f) :
        f[i][2].status = IF i <= 3 THEN "waiting_for_signature" ELSE "waiting_for_execution"

\* C9: a step is only ever built in its initial state (waiting_for_signature
\* for steps 1-3, waiting_for_execution for step 4), in the flow under
\* construction as in the returned one, and no step of the orchestrator
\* changes the status of a step that is built.
C9_OnlyInitialStatuses ==
    /\ [](/\ InitialStatuses(transaction_flow)
          /\ pc = "returned" => /\ Len(result.transaction_flow) = 4
                                /\ InitialStatuses(result.transaction_flow))
    /\ [][\A i \in 1..Len(transaction_flow) :
              i <= Len(transaction_flow') =>
                  transaction_flow'[i][2].status = transaction_flow[i][2].status]_vars

\* the flow for 50 is returned with its four steps waiting
C9_Witness ==
    /\ pc = "returned"
    /\ result.amount = JInt(FALSE, 50, 0)
    /\ result.transaction_flow[3][2].status = "waiting_for_signature"
    /\ result.transaction_flow[4][2].status = "waiting_for_execution"

\* C10: every amount emitted in calldata is exactly 64 hexadecimal digits,
\* without a sign: a negative base-unit value, or one of 2^256 or more, is
\* never encoded.
C10_AmountWordsFit ==
    \A i \in 1..Len(transaction_flow) :
        i <= 3 =>
            /\ Len(AmountField(transaction_flow, i)) = 64
            /\ \A j \in 1..Len(AmountField(transaction_flow, i)) :
                   AmountField(transaction_flow, i)[j] \in
                       {HexDigits[k] : k \in 1..Len(HexDigits)}

\* the values a and j are of the same type and equal
Same(a, j) == a.t = j.t /\ a.v = j.v

\* decimal amounts mant * 10^exp of at most six decimal places
DecimalAmounts ==
    {[mant |-> m, exp |-> e] : m \in {10, 29, 41, 50, 100, 113, 125}, e \in {-2, -1, 0}}

\* the amount is the number the decimal d denotes
IsDecimal(a, d) ==
    \E f \in {float(a)} : ~f.raised /\ f.value = FloatOfDecimal(FALSE, d.mant, d.exp)

\* C11: for an amount a >= 0 of at most six decimal places the base-unit
\* value in the mint calldata is round(a * 10^6), the decimal shifted by six
\* places: no base unit is lost.
C11_BaseUnitsAreRounded ==
    \A d \in DecimalAmounts :
        amount # Unset /\ Len(transaction_flow) >= 1 /\ IsDecimal(amount, d) =>
            AmountField(transaction_flow, 1)
                = Format064x([neg |-> FALSE,
                              mag |-> MulPow10(NatToLimbs(d.mant), 6 + d.exp)])

HexVal(c) == (CHOOSE j \in 1..Len(HexDigits) : HexDigits[j] = c) - 1

IsHex(s) == \A j \in 1..Len(s) : \E k \in 1..Len(HexDigits) : HexDigits[k] = s[j]

\* the number that a text of hexadecimal digits denotes, three digits to a limb
HexValue(s) ==
    Normalize([k \in 1..((Len(s) + 2) \div 3) |->
                  LET q == Len(s) - 3 * (k - 1)
                      d(p) == IF p >= 1 THEN HexVal(s[p]) ELSE 0
                  IN  d(q) + 16 * d(q - 1) + 256 * d(q - 2)])

\* the base-unit value is not negative and below 2^256
FitsWord(units) == ~units.neg /\ BitLen(units.mag) <= 256

\* C12: for a non-negative amount that fits in 256 bits the mint calldata of
\* step 1 is 74 characters: "0x", the selector a0712d68, and one word of 64
\* hexadecimal digits whose value is the amount in base units.
C12_MintCalldata ==
    amount # Unset /\ Len(transaction_flow) >= 1 =>
        \A units \in {BaseUnits(amount, TOKEN_DECIMALS["tUSD"]).value} :
            FitsWord(units) =>
                /\ Len(DataOf(transaction_flow, 1)) = 74
                /\ SubSeq(DataOf(transaction_flow, 1), 1, 10)
                       = <<"0", "x", "a", "0", "7", "1", "2", "d", "6", "8">>
                /\ IsHex(AmountField(transaction_flow, 1))
                /\ HexValue(AmountField(transaction_flow, 1)) = units.mag

\* the mint calldata for 12.5 is built: 12500000 is 0xbebc20
C12_Witness ==
    /\ Len(transaction_flow) >= 1
    /\ Same(amount, JFloat(FALSE, 125, -1))
    /\ DataOf(transaction_flow, 1)
           = <<"0", "x", "a", "0", "7", "1", "2", "d", "6", "8">>
             \o Repeat("0", 58) \o <<"b", "e", "b", "c", "2", "0">>

\* C13: the approve calldata of step 2 is 138 characters: "0x", the selector
\* 095ea7b3, the bridge address without its prefix in lower case behind 24
\* zeros, and one word of 64 hexadecimal digits whose value is the amount in
\* base units.
C13_ApproveCalldata ==
    amount # Unset /\ Len(transaction_flow) >= 2 =>
        \A units \in {BaseUnits(amount, TOKEN_DECIMALS["tUSD"]).value} :
            /\ Len(DataOf(transaction_flow, 2)) = 138
            /\ SubSeq(DataOf(transaction_flow, 2), 1, 10)
                   = <<"0", "x", "0", "9", "5", "e", "a", "7", "b", "3">>
            /\ SubSeq(DataOf(transaction_flow, 2), 11, 74)
                   = Repeat("0", 24) \o lower(SubSeq(TEST_REMITTANCE_BRIDGE_ADDRESS, 3, 42))
            /\ IsHex(AmountField(transaction_flow, 2))
            /\ ~units.neg
            /\ HexValue(AmountField(transaction_flow, 2)) = units.mag

\* the i-th step (1, 2 or 3) that the intent (a, addr) alone determines
StepFor(a, addr, i) ==
    CASE i = 1 -> Step1(generate_tusd_faucet_tx(addr, a).value)
      [] i = 2 -> Step2(generate_tusd_approval_tx(addr, TEST_REMITTANCE_BRIDGE_ADDRESS, a).value)
      [] i = 3 -> Step3(generate_test_remittance_tx(addr, a, JStr(<<>>)).value, a)

C15_SimulationRepeats ==
    pc = "step1" =>
        \A h \in 1..NumTokens :
            \A c \in {simulate_test_remittance_cost(recipient_address, amount, h)} :
                /\ ~c.raised
                /\ DOMAIN c.value = DOMAIN cost_simulation
                /\ \A k \in DOMAIN cost_simulation \ {"transaction_hash"} :
                       c.value[k] = cost_simulation[k]

\* the simulation for 100 has returned, and a second call with another token
\* returns another transaction_hash
C15_Witness ==
    /\ pc = "step1"
    /\ Same(amount, JInt(FALSE, 100, 0))
    /\ \E h \in 1..NumTokens :
           simulate_test_remittance_cost(recipient_address, amount, h).value.transaction_hash
               # cost_simulation.transaction_hash

\* lo / 10^k <= f < hi / 10^k, for a double f >= 0 with f.e <= 0
Within(f, lo, hi, k) ==
    /\ ~f.neg /\ f.e <= 0
    /\ GeqBig(MulPow10(f.m, k), ShiftLeft(NatToLimbs(lo), 0 - f.e))
    /\ ~GeqBig(MulPow10(f.m, k), ShiftLeft(NatToLimbs(hi), 0 - f.e))

\* C16: the cost simulation chains the rates 1.005, 0.92 and 1.01, each hop
\* from the amount of the hop before: usdc = usd / 1.005, eurc = usdc * 0.92,
\* eur = eurc / 1.01, in what the simulation returns; for 100 these are
\* within a cent of 99.50, 91.54 and 90.63.
C16_RatesAreChained ==
    pc = "step1" =>
        /\ cost_simulation.exchange_rates
               = [usd_to_usdc  |-> FloatOfDecimal(FALSE, 1005, -3),
                  usdc_to_eurc |-> FloatOfDecimal(FALSE, 92, -2),
                  eurc_to_eur  |-> FloatOfDecimal(FALSE, 101, -2)]
        /\ cost_simulation.usd_amount = float(amount).value
        /\ cost_simulation.usdc_amount
               = FloatDiv(cost_simulation.usd_amount, FloatOfDecimal(FALSE, 1005, -3))
        /\ cost_simulation.eurc_amount
               = FloatMul(cost_simulation.usdc_amount, FloatOfDecimal(FALSE, 92, -2))
        /\ cost_simulation.eur_amount
               = FloatDiv(cost_simulation.eurc_amount, FloatOfDecimal(FALSE, 101, -2))
        /\ Same(amount, JInt(FALSE, 100, 0)) =>
               /\ Within(cost_simulation.usdc_amount, 9949, 9951, 2)
               /\ Within(cost_simulation.eurc_amount, 9153, 9155, 2)
               /\ Within(cost_simulation.eur_amount, 9062, 9064, 2)

\* the simulation for 100 has run: 100 / 1.005 is the double
\* 0x18e028c1978fec * 2^-46, about 99.5025
C16_Witness ==
    /\ pc = "step1"
    /\ Same(amount, JInt(FALSE, 100, 0))
    /\ Within(cost_simulation.usdc_amount, 995024, 995025, 4)
    /\ Within(cost_simulation.eur_amount, 906359, 906360, 4)

\* C17: in every cost simulation the service fee is the principal times
\* 0.005 (0.5 for 100), the network fee is 45.0, which is 300000 gas at
\* 50 gwei and 3000 dollars, divided by 10^9, whatever the amount, and
\* total_cost_usd is the sum of the two.
C17_Fees ==
    cost_simulation # Unset =>
        /\ cost_simulation.fees.service_fee_usd
               = FloatMul(float(amount).value, FloatOfDecimal(FALSE, 5, -3))
        /\ cost_simulation.fees.network_fee_usd = FloatOfDecimal(FALSE, 45, 0)
        /\ cost_simulation.fees.total_cost_usd
               = FloatAdd(cost_simulation.fees.network_fee_usd,
                          cost_simulation.fees.service_fee_usd)
        /\ Same(amount, JInt(FALSE, 100, 0)) =>
               /\ cost_simulation.fees.service_fee_usd = FloatOfDecimal(FALSE, 5, -1)
               /\ cost_simulation.fees.total_cost_usd = FloatOfDecimal(FALSE, 455, -1)

\* the simulation for 12.5 has run: the fees are 45.0, 0.0625 and 45.0625
C17_Witness ==
    /\ cost_simulation # Unset
    /\ Same(amount, JFloat(FALSE, 125, -1))
    /\ cost_simulation.fees
           = [network_fee_usd |-> FloatOfDecimal(FALSE, 45, 0),
              service_fee_usd |-> FloatOfDecimal(FALSE, 625, -4),
              total_cost_usd  |-> FloatOfDecimal(FALSE, 450625, -4)]

\* C18: format_address is idempotent: formatting the outcome of
\* format_address again returns it unchanged, whether the text drawn had no
\* prefix, letters in both cases, or the prefix "0X".
C18_FormatIsIdempotent ==
    [][pc = "formatted" /\ pc' = "formatted_twice" => result' = result]_vars

\* "0XB" has been formatted twice: the outcome is "0x0xb"
C18_Witness ==
    /\ pc = "formatted_twice"
    /\ recipient_address.v = <<"0", "X", "B">>
    /\ result = <<"0", "x", "0", "x", "b">>

\* the text is "0x" followed by hexadecimal digits in lower case
Canonical(s) == startswith(s, <<"0", "x">>) /\ IsHex(SubSeq(s, 3, Len(s)))

\* C19: in every descriptor of a flow, to and from are addresses in
\* canonical form: the prefix 0x and hexadecimal digits with no upper-case
\* letter.
C19_AddressesCanonical ==
    \A i \in 1..Len(transaction_flow) :
        i <= 3 =>
            /\ Canonical(transaction_flow[i][2].tx_data.from)
            /\ Canonical(transaction_flow[i][2].tx_data.to)

\* C20: in every flow the descriptor of the mint step has gasLimit 200000,
\* that of the approve step the default 200000 and that of the bridge step
\* 300000: no step has a gas limit below the default.
C20_GasLimits ==
    \A i \in 1..Len(transaction_flow) :
        i <= 3 =>
            /\ transaction_flow[i][2].tx_data.gasLimit
                   = (IF i = 3 THEN 300000 ELSE 200000)
            /\ transaction_flow[i][2].tx_data.gasLimit >= 200000

\* C20, amended: in every flow the descriptor of the mint step has gasLimit
\* 200000, that of the bridge step 300000, and that of the approve step the
\* 100000 its builder sets, below the default 200000 of a descriptor; no
\* step has a gas limit below 100000.
C20_GasLimitsAsBuilt ==
    \A i \in 1..Len(transaction_flow) :
        i <= 3 =>
            /\ transaction_flow[i][2].tx_data.gasLimit
                   = (CASE i = 1 -> 200000 [] i = 2 -> 100000 [] i = 3 -> 300000)
            /\ transaction_flow[i][2].tx_data.gasLimit >= 100000

\* the flow for 50 is returned with the gas limits 200000, 100000, 300000
C20_Witness ==
    /\ pc = "returned"
    /\ Same(amount, JInt(FALSE, 50, 0))
    /\ [i \in 1..3 |-> result.transaction_flow[i][2].tx_data.gasLimit]
           = <<200000, 100000, 300000>>

\* the non-negative int that the hexadecimal text s denotes
IntOfHex(s) == [neg |-> FALSE, mag |-> HexValue(s)]

\* C21: every descriptor of a flow has chainId 11155111, value 0 and the
\* gasPrice 50e9 (0xba43b7400), in each of steps 1, 2 and 3.
C21_FixedConstants ==
    \A i \in 1..Len(transaction_flow) :
        i <= 3 =>
            /\ transaction_flow[i][2].tx_data.chainId = 11155111
            /\ transaction_flow[i][2].tx_data.value = 0
            /\ transaction_flow[i][2].tx_data.gasPrice
                   = IntOfHex(<<"b", "a", "4", "3", "b", "7", "4", "0", "0">>)

\* C21, amended: every descriptor of a flow has chainId 11155111 and value
\* 0; the gasPrice is 50e9 in steps 2 and 3 and the 55e9 (0xcce416600) that
\* the mint builder sets in step 1.
C21_ConstantsAsBuilt ==
    \A i \in 1..Len(transaction_flow) :
        i <= 3 =>
            /\ transaction_flow[i][2].tx_data.chainId = 11155111
            /\ transaction_flow[i][2].tx_data.value = 0
            /\ transaction_flow[i][2].tx_data.gasPrice
                   = IF i = 1
                     THEN IntOfHex(<<"c", "c", "e", "4", "1", "6", "6", "0", "0">>)
                     ELSE IntOfHex(<<"b", "a", "4", "3", "b", "7", "4", "0", "0">>)

\* the flow for 12.5 is returned: the mint step asks 55e9, the bridge step 50e9
C21_Witness ==
    /\ pc = "returned"
    /\ Same(amount, JFloat(FALSE, 125, -1))
    /\ result.transaction_flow[1][2].tx_data.gasPrice.mag = MulPow10(NatToLimbs(55), 9)
    /\ result.transaction_flow[3][2].tx_data.gasPrice.mag = MulPow10(NatToLimbs(50), 9)
    /\ result.transaction_flow[3][2].tx_data.chainId = CHAIN_ID

\* the text t occurs in the text s
Contains(s, t) == \E i \in 0..(Len(s) - Len(t)) : SubSeq(s, i + 1, i + Len(t)) = t

\* C22: in every flow steps 1 and 2 are addressed to the tUSD contract and
\* step 3 to the bridge contract, the spender word of step 2's calldata is
\* the bridge address, and the description of step 3 is "Convert ", the
\* amount as text and " tUSDC to tEURC via TestRemittanceBridge": for the
\* amount 50 it contains "50", for 12.5 it contains "12.5".
C22_TargetsAndDescription ==
    \A i \in 1..Len(transaction_flow) :
        /\ i <= 2 => transaction_flow[i][2].tx_data.to = SEPOLIA_CONTRACTS["tUSD"]
        /\ i = 2 => SubSeq(DataOf(transaction_flow, 2), 11, 74)
                        = Repeat("0", 24)
                          \o lower(SubSeq(SEPOLIA_CONTRACTS["TestRemittanceBridge"], 3, 42))
        /\ i = 3 =>
               /\ transaction_flow[3][2].tx_data.to = SEPOLIA_CONTRACTS["TestRemittanceBridge"]
               /\ Contains(transaction_flow[3][2].description, str(amount))
               /\ Len(transaction_flow[3][2].description) = 48 + Len(str(amount))
               /\ Same(amount, JInt(FALSE, 50, 0)) =>
                      Contains(transaction_flow[3][2].description, <<" ", "5", "0", " ">>)
               /\ Same(amount, JFloat(FALSE, 125, -1)) =>
                      Contains(transaction_flow[3][2].description,
                               <<" ", "1", "2", ".", "5", " ">>)

\* the flow for 50 is returned, with "Convert 50 tUSDC" in step 3
C22_Witness ==
    /\ pc = "returned"
    /\ Same(amount, JInt(FALSE, 50, 0))
    /\ SubSeq(result.transaction_flow[3][2].description, 1, 16)
           = <<"C", "o", "n", "v", "e", "r", "t", " ", "5", "0", " ", "t", "U", "S", "D", "C">>
    /\ result.transaction_flow[1][2].tx_data.to = SEPOLIA_CONTRACTS["tUSD"]

\* the value under key in the oracle's object d, or the text fallback if
\* the object has no such key
SuppliedOr(d, key, fallback) == IF key \in DOMAIN d THEN d[key] ELSE JStr(fallback)

\* C23: the defaults step leaves a currency that the oracle's object has
\* unchanged and sets an absent source_currency to "USD" and an absent
\* target_currency to "EUR"; no later step changes the two, and the result
\* returns them.
C23_CurrencyDefaults ==
    [][/\ pc = "defaults" /\ pc' = "simulate" =>
              /\ parsed_data'.source_currency
                     = SuppliedOr(parsed_data.value, "source_currency", <<"U", "S", "D">>)
              /\ parsed_data'.target_currency
                     = SuppliedOr(parsed_data.value, "target_currency", <<"E", "U", "R">>)
       /\ pc \in {"simulate", "step1", "step2", "step3", "step4", "summary", "return"}
              /\ pc' # "raised" =>
                  /\ parsed_data'.source_currency = parsed_data.source_currency
                  /\ parsed_data'.target_currency = parsed_data.target_currency
       /\ pc' = "returned" =>
              /\ result'.source_currency = parsed_data.source_currency
              /\ result'.target_currency = parsed_data.target_currency]_vars

\* the result for the object that names GBP and no target currency is
\* returned with GBP and EUR
C23_Witness ==
    /\ pc = "returned"
    /\ Same(amount, JFloat(FALSE, 113, -2))
    /\ result.source_currency = JStr(<<"G", "B", "P">>)
    /\ result.target_currency = JStr(<<"E", "U", "R">>)


\* what may stand around a fenced block in the replies drawn: nothing, or
\* one of the pieces
Around == {<<>>} \cup {ReplyPieces[j] : j \in 1..Len(ReplyPieces)}

\* what may stand between a fence and the object in it
Blank == {<<>>, <<"\n">>}

\* the replies that carry the i-th object in a json fence: no json fence
\* stands before it
JsonCarriers ==
    [i \in 1..Len(ReplyObjects) |->
        {strip(p \o JsonFence \o v \o ReplyObjects[i].text \o w \o Fence \o q) :
            p \in {a \in Around : ~In(JsonFence, a)}, q \in Around, v \in Blank, w \in Blank}]

\* the replies that carry the i-th object in a generic fence: no fence stands
\* before it and there is no json fence
GenericCarriers ==
    [i \in 1..Len(ReplyObjects) |->
        {strip(p \o Fence \o v \o ReplyObjects[i].text \o w \o Fence \o q) :
            p \in {a \in Around : ~In(Fence, a)}, q \in {a \in Around : ~In(JsonFence, a)},
            v \in Blank, w \in Blank}]

\* C24: a reply that carries a JSON object in a json fence, in a generic
\* fence or as the whole reply is parsed, at the first attempt, to that
\* object, whatever stands around the fence; a json fence goes before a
\* generic one and a generic one before the raw text.
C24_FencesAndRaw ==
    [][pc = "parse" =>
          \A i \in 1..Len(ReplyObjects) :
              response_text \in JsonCarriers[i] \cup GenericCarriers[i] \cup {ReplyObjects[i].text}
                  => /\ pc' = "defaults"
                     /\ parsed_data' = [kind |-> "object", value |-> ReplyObjects[i].value]]_vars

\* a generic fence with one object, then a json fence with another: the reply
\* is parsed to the object of the json fence
C24_Witness ==
    /\ pc = "defaults"
    /\ response_text = Fenced(ReplyObjects[2].text) \o JsonFenced(ReplyObjects[1].text)
    /\ parsed_data.value = ReplyObjects[1].value

\* the texts from the first "{" of text to its last "}": one text, or none
\* when a brace is missing or the last "}" stands before the first "{"
BraceToBrace(text) ==
    {SubSeq(text, a, b) : a \in {j \in 1..Len(text) : /\ text[j] = "{"
                                                      /\ \A k \in 1..(j - 1) : text[k] # "{"},
                          b \in {j \in 1..Len(text) : /\ text[j] = "}"
                                                      /\ \A k \in (j + 1)..Len(text) : text[k] # "}"}}

\* the objects a text spells, by the table of the objects drawn; braces with
\* nothing but blanks between them spell the empty object
Spelled(text) ==
    {ReplyObjects[i].value : i \in {j \in 1..Len(ReplyObjects) : ReplyObjects[j].text = strip(text)}}
        \cup {<<>> : j \in {k \in {1} : /\ Len(strip(text)) >= 2
                                         /\ Head(strip(text)) = "{"
                                         /\ strip(text)[Len(strip(text))] = "}"
                                         /\ \A m \in 2..(Len(strip(text)) - 1) :
                                                strip(text)[m] \in Whitespace}}

\* C25: the scan for braces runs only once the first attempt has failed; it
\* parses the text from the first "{" of the whole reply to its last "}";
\* when there is no such text or it is no JSON either, the call ends in the
\* exception that carries the reply's text, nothing is tried again, and no
\* cost simulation, flow or result exists.
C25_BracketFallback ==
    [][/\ pc' = "fallback" => pc = "parse" /\ Spelled(json_str) = {}
       /\ pc = "fallback" =>
              \/ /\ pc' = "defaults"
                 /\ json_str' \in BraceToBrace(response_text)
                 /\ parsed_data'.kind = "object"
                 /\ parsed_data'.value \in Spelled(json_str')
              \/ /\ pc' = "raised"
                 /\ \A t \in BraceToBrace(response_text) : Spelled(t) = {}
                 /\ exc'.type = "Exception"
                 /\ exc'.message = ParseFailurePrefix \o response_text
                 /\ cost_simulation' = Unset
                 /\ transaction_flow' = <<>>
                 /\ result' = Unset
       /\ pc = "raised" => pc' = "idle"]_vars

\* a reply with braces around no JSON: "{" and then an object
C25_Witness ==
    /\ pc = "raised"
    /\ exc.lineno = 127
    /\ exc.message = ParseFailurePrefix \o <<"{">> \o ReplyObjects[1].text

\* the oracle's recipient_address calls for the placeholder: the key is
\* missing, or its value is the empty text or "default"
NoRecipient(d) ==
    \/ "recipient_address" \notin DOMAIN d
    \/ /\ d.recipient_address.t = "str"
       /\ d.recipient_address.v \in {<<>>, <<"d", "e", "f", "a", "u", "l", "t">>}

\* C26: in a returned flow the from of the three descriptors is one address:
\* the oracle's recipient_address, normalized, or the zero address when that
\* is missing, empty or "default"; the placeholder is not written into the
\* parsed object, and the result's recipient_address is as the oracle gave it.
C26_FromIsRecipient ==
    [][/\ pc = "defaults" /\ pc' = "simulate" =>
              /\ NoRecipient(parsed_data.value) => recipient_address' = JStr(PlaceholderAddress)
              /\ ~NoRecipient(parsed_data.value) /\ parsed_data.value.recipient_address.t = "str"
                     => recipient_address' = parsed_data.value.recipient_address
              /\ ("recipient_address" \in DOMAIN parsed_data')
                     = ("recipient_address" \in DOMAIN parsed_data.value)
              /\ "recipient_address" \in DOMAIN parsed_data.value
                     => parsed_data'.recipient_address = parsed_data.value.recipient_address
       /\ pc \in {"simulate", "step1", "step2", "step3", "step4", "summary", "return"}
              /\ pc' # "raised" =>
                  /\ recipient_address' = recipient_address
                  /\ parsed_data' = parsed_data
       /\ pc' = "returned" =>
              /\ ("recipient_address" \in DOMAIN result')
                     = ("recipient_address" \in DOMAIN parsed_data)
              /\ "recipient_address" \in DOMAIN parsed_data
                     => result'.recipient_address = parsed_data.recipient_address
              /\ \A i \in 1..3 :
                     result'.transaction_flow[i][2].tx_data.from
                         = format_address(recipient_address.v)]_vars

\* a flow returned for a recipient_address of "default"
C26_Witness ==
    /\ pc = "returned"
    /\ "recipient_address" \in DOMAIN result
    /\ result.recipient_address.t = "str"
    /\ result.recipient_address.v = <<"d", "e", "f", "a", "u", "l", "t">>
    /\ \A i \in 1..3 : result.transaction_flow[i][2].tx_data.from = PlaceholderAddress

\* the valid responses that occur exactly once in text, as integers
OccurOnce(text) ==
    {d \in 0..4 : \E j \in 1..Len(text) : /\ text[j] = Digits[d + 1]
                                          /\ \A k \in 1..Len(text) : text[k] = Digits[d + 1] => k = j}

\* C27: get_valid_response returns an integer in 0..4: d when d is the only
\* one of "0".."4" that occurs exactly once in the response, and 0 whenever
\* several of them or none of them occur exactly once.
C27_ValidResponse ==
    api_pc = "route" =>
        /\ classification \in 0..4
        /\ \A d \in 0..4 : OccurOnce(response) = {d} => classification = d
        /\ Cardinality(OccurOnce(response)) # 1 => classification = 0

\* "122": the digit that occurs twice is passed over
C27_Witness ==
    /\ api_pc = "route"
    /\ response = <<"1", "2", "2">>
    /\ classification = 1

\* C28: get_answer returns a payload {transaction_type, response} only for
\* the classifications 1, 2 and 3, and then with query_type bound; for 0 and
\* for 4 it ends in an HTTP 500 error; it never calls
\* process_remittance_intent.  process_transaction calls
\* process_remittance_intent for classification 4 and returns the error
\* payload of the removed buy function for classification 3.
C28_Routing ==
    api_pc = "done" =>
        /\ entry = "get_answer" =>
               /\ \A j \in 1..Len(calls) : calls[j] # "process_remittance_intent"
               /\ answer.kind \in {"returned", "HTTPException"}
               /\ answer.kind = "returned" =>
                      /\ classification \in {1, 2, 3}
                      /\ query_type = <<"transfer", "swap", "buy">>[classification]
                      /\ DOMAIN answer.value = {"transaction_type", "response"}
                      /\ answer.value.transaction_type = query_type
               /\ Len(calls) > 0 /\ classification \in {0, 4} =>
                      /\ answer.kind = "HTTPException"
                      /\ answer.status_code = 500
                      /\ calls = <<"classify_transaction">>
        /\ entry = "process_transaction" /\ classification = 4 =>
               /\ calls = <<"classify_transaction", "process_remittance_intent">>
               /\ answer.kind = "returned" =>
                      /\ answer.value.transaction_type = "remittance"
                      /\ answer.value.response = ValueOf("process_remittance_intent")
        /\ entry = "process_transaction" /\ classification = 3 =>
               /\ answer.kind = "returned"
               /\ answer.value = [transaction_type |-> "buy",
                                  response |-> [error |-> "Buy functionality has been removed"]]

\* get_answer has met classification 4
C28_Witness ==
    /\ api_pc = "done"
    /\ entry = "get_answer"
    /\ classification = 4
    /\ answer.kind = "HTTPException"
    /\ query_type = NoText

\* ---- C29 ----

\* the attempts that end run_test_case's loop, as the claim has them: any
\* response with status 200
Answered == {a \in {[status |-> 200, json |-> TRUE], [status |-> 200, json |-> FALSE]} : a.status = 200}

\* the attempts that end the loop: a response with status 200 whose body
\* response.json() reads
Decoded == {[status |-> 200, json |-> TRUE]}

\* every attempt allowed has been made and none is in good
AllFailed(attempts, good) ==
    /\ Len(attempts) = max_retries
    /\ \A i \in 1..Len(attempts) : attempts[i] \notin good

\* one step of the framework, seen from run_test_case, where the attempts in
\* good are the successful ones
RetrySteps(good) ==
    /\ Len(sent') <= max_retries
    /\ \A i \in 1..Len(sent') : sent'[i] \in good => i = Len(sent') /\ qa_pc' = "record"
    /\ \A i \in 1..Len(slept') : slept'[i] = Pow2(i - 1)
    /\ qa_pc' = "send" => Len(slept') = Len(sent')
    /\ qa_pc' \in {"wait", "record"} => Len(slept') = Len(sent') - 1
    /\ (qa_pc \in {"send", "wait"} /\ qa_pc' \in {"send", "wait"})
           => metrics'.failed_requests = metrics.failed_requests
    /\ (qa_pc \in {"send", "wait"} /\ qa_pc' = "record")
           => IF AllFailed(sent', good)
              THEN /\ metrics'.failed_requests = metrics.failed_requests + 1
                   /\ DOMAIN actual_intent' = {"error"}
                   /\ actual_intent'.error = "All requests failed"
                   /\ response_time' = 0
              ELSE /\ metrics'.failed_requests = metrics.failed_requests
                   /\ sent'[Len(sent')] \in good

\* C29 as stated: run_test_case sends at most max_retries requests, returns
\* at the first response with status 200 and sends nothing after it, sleeps
\* 2**attempt between two attempts and not after the last one, and adds one
\* to failed_requests exactly when all max_retries attempts failed, returning
\* then the error payload with response time 0
C29_ReturnsAtFirst200 == [][RetrySteps(Answered)]_vars

\* C29, amended: the same, where the response that ends the loop is the first
\* one with status 200 whose body response.json() reads; a response with
\* status 200 and another body is a failed attempt like a raised exception
C29_ReturnsAtFirstDecoded200 == [][RetrySteps(Decoded)]_vars

\* run_test_case has given up after max_retries attempts, one of them a
\* response with status 200 whose body is not JSON, and the failure is counted
C29_Witness ==
    /\ qa_pc = "record"
    /\ AllFailed(sent, Decoded)
    /\ \E i \in 1..Len(sent) : sent[i].status = 200
    /\ slept = <<1, 2>>
    /\ metrics.failed_requests = 1
    /\ response_time = 0

\* ---- C30 ----

\* the sum of d[k][field] over the keys k
RECURSIVE SumOver(_, _, _)
SumOver(d, keys, field) ==
    IF keys = {} THEN 0
    ELSE LET k == CHOOSE x \in keys : TRUE
         IN  d[k][field] + SumOver(d, keys \ {k}, field)

\* C30: between two test cases of run_test_suite and after it has returned,
\* total is the number of results and of response times, correct <= total,
\* the totals of by_intent_type sum to total and its corrects to correct,
\* failed_requests <= total, and correct <= total for every key of
\* parameter_accuracy; total counts the test cases of this suite only,
\* whatever suites ran before
C30_MetricsConsistent ==
    qa_pc \in {"case", "returned"} =>
        /\ metrics.total = Len(results)
        /\ metrics.total = Len(metrics.response_times)
        /\ metrics.correct <= metrics.total
        /\ SumOver(metrics.by_intent_type, DOMAIN metrics.by_intent_type, "total") = metrics.total
        /\ SumOver(metrics.by_intent_type, DOMAIN metrics.by_intent_type, "correct") = metrics.correct
        /\ metrics.failed_requests <= metrics.total
        /\ \A key \in DOMAIN metrics.parameter_accuracy :
               metrics.parameter_accuracy[key].correct <= metrics.parameter_accuracy[key].total
        /\ qa_pc = "case" => metrics.total = case_no

\* two test cases of two intent types are processed: one request failed
\* for good, one answer is correct and a parameter has been counted
C30_Witness ==
    /\ qa_pc = "case"
    /\ case_no = 2
    /\ metrics.total = 2
    /\ metrics.correct = 1
    /\ metrics.failed_requests = 1
    /\ Cardinality(DOMAIN metrics.by_intent_type) = 2
    /\ DOMAIN metrics.parameter_accuracy # {}
=============================================================================
